---- MODULE Spec2Model ----
(***************************************************************************)
(* Text chunking (rag/chunking.py, TextChunker) and filename metadata      *)
(* (vector.py, extract_metadata) of responsible-fin-ai.                    *)
(*                                                                         *)
(* A Python str is modelled as a sequence of one-character strings, so     *)
(* that len, slicing, strip, re.split, lower/upper and startswith are      *)
(* computed character by character as the interpreter computes them.       *)
(***************************************************************************)
EXTENDS Integers, Sequences, FiniteSets, TLC

VARIABLES pc, text, chunk_size, chunk_overlap, file_path, chunks, records, metadata,
          calls, tax_file, tax_collection, ingest_result, results,
          outcomes, runs, doc, pdf_chunks

vars == <<pc, text, chunk_size, chunk_overlap, file_path, chunks, records, metadata,
          calls, tax_file, tax_collection, ingest_result, results,
          outcomes, runs, doc, pdf_chunks>>

\* the variables of the orchestrator and of the PDF extractor
pipeline_vars == <<results, outcomes, runs, doc, pdf_chunks>>

(***************************************************************************)
(* Bounds of the checked input space.                                      *)
(***************************************************************************)
MaxLen == 6
MaxChunkSize == 3
MaxOverlap == 2
MaxLines == 3
MaxNameParts == 2
NumCalls == 2
MaxItems == 2
MaxStepLen == 4
MaxEntries == 1
MaxRuns == 2
MaxPages == 3

(***************************************************************************)
(* Characters and the str primitives the code uses.                        *)
(***************************************************************************)
\* str.strip() and the regex class \s: ASCII whitespace
Whitespace == {" ", "\n", "\t", "\r", "\f"}

\* the character class [.!?] of the sentence delimiter
Punct == {".", "!", "?"}

\* the regex class \d
Digits == {"0", "1", "2", "3", "4", "5", "6", "7", "8", "9"}

UpperLetters == <<"A","B","C","D","E","F","G","H","I","J","K","L","M",
                  "N","O","P","Q","R","S","T","U","V","W","X","Y","Z">>

LowerLetters == <<"a","b","c","d","e","f","g","h","i","j","k","l","m",
                  "n","o","p","q","r","s","t","u","v","w","x","y","z">>

LowerChar(c) ==
    IF \E i \in 1..26 : UpperLetters[i] = c
    THEN LowerLetters[CHOOSE i \in 1..26 : UpperLetters[i] = c]
    ELSE c

UpperChar(c) ==
    IF \E i \in 1..26 : LowerLetters[i] = c
    THEN UpperLetters[CHOOSE i \in 1..26 : LowerLetters[i] = c]
    ELSE c

\* str.lower() / str.upper()
Lower(s) == [i \in 1..Len(s) |-> LowerChar(s[i])]

Upper(s) == [i \in 1..Len(s) |-> UpperChar(s[i])]

\* s[:n] for n >= 0
Take(s, n) == SubSeq(s, 1, IF n < Len(s) THEN n ELSE Len(s))

\* s[-n:] for n > 0
Suffix(s, n) == SubSeq(s, IF n < Len(s) THEN Len(s) - n + 1 ELSE 1, Len(s))

\* s.startswith(p)
StartsWith(s, p) == Len(p) <= Len(s) /\ SubSeq(s, 1, Len(p)) = p

\* p in s
Contains(s, p) ==
    \E i \in 1..(Len(s) - Len(p) + 1) : SubSeq(s, i, i + Len(p) - 1) = p

\* index of the last character of the run of characters of `class` that
\* starts at i (i - 1 when s[i] is not in the class)
RECURSIVE RunEnd(_, _, _)
RunEnd(s, i, class) ==
    IF i <= Len(s) /\ s[i] \in class THEN RunEnd(s, i + 1, class) ELSE i - 1

\* index of the first character of the run of characters of `class` that
\* ends at i (i + 1 when s[i] is not in the class)
RECURSIVE RunStart(_, _, _)
RunStart(s, i, class) ==
    IF i >= 1 /\ s[i] \in class THEN RunStart(s, i - 1, class) ELSE i + 1

\* str.lstrip()
LStrip(s) == SubSeq(s, RunEnd(s, 1, Whitespace) + 1, Len(s))

\* str.rstrip()
RStrip(s) == SubSeq(s, 1, RunStart(s, Len(s), Whitespace) - 1)

\* str.strip()
Strip(s) == RStrip(LStrip(s))

(***************************************************************************)
(* re.split(r'[.!?]+\s+', text)                                            *)
(***************************************************************************)
\* a delimiter that needs no whitespace after the punctuation
DelimiterAt_AnyPunctuation(s, i) ==
    /\ i <= Len(s)
    /\ s[i] \in Punct

\* the delimiter [.!?]+\s+ matches at i: the greedy punctuation run starting
\* at i must be followed by whitespace (backtracking into the run cannot
\* help, the character after a shorter run is punctuation)
DelimiterAt(s, i) ==
    /\ i <= Len(s)
    /\ s[i] \in Punct
    /\ RunEnd(s, RunEnd(s, i, Punct) + 1, Whitespace) > RunEnd(s, i, Punct)

\* index of the last character of the delimiter matched at i
DelimiterEnd(s, i) == RunEnd(s, RunEnd(s, i, Punct) + 1, Whitespace)

\* the pieces of s from index `start` on, scanning for a delimiter from i:
\* the leftmost delimiter at or after i ends the first piece
RECURSIVE SplitFrom(_, _, _)
SplitFrom(s, start, i) ==
    LET hits == { j \in i..Len(s) : DelimiterAt(s, j) }
        d == CHOOSE j \in hits : \A k \in hits : j <= k
    IN IF hits = {} THEN << SubSeq(s, start, Len(s)) >>
       ELSE << SubSeq(s, start, d - 1) >>
            \o SplitFrom(s, DelimiterEnd(s, d) + 1, DelimiterEnd(s, d) + 1)

ReSplitSentences(s) == SplitFrom(s, 1, 1)

(***************************************************************************)
(* TextChunker.chunk_by_sentences                                          *)
(***************************************************************************)
\* lines 26 and 31-34: the stripped, non-empty pieces, in order
Sentences(s) ==
    LET pieces == ReSplitSentences(s)
        IsSentence(p) == Strip(p) # << >>
        kept == SelectSeq(pieces, IsSentence)
    IN [i \in 1..Len(kept) |-> Strip(kept[i])]

\* a size test that forgets the buffer
ExceedsChunkSize_SentenceOnly(current_chunk, sentence, size) ==
    Len(sentence) > size

\* a size test that forgets the sentence
ExceedsChunkSize_BufferOnly(current_chunk, sentence, size) ==
    Len(current_chunk) > size

\* the test of line 37: the separating space is not counted
ExceedsChunkSize(current_chunk, sentence, size) ==
    Len(current_chunk) + Len(sentence) > size

\* an overlap slice one character short
OverlapText_OneShort(current_chunk, overlap) == Suffix(current_chunk, overlap - 1)

\* current_chunk[-self.chunk_overlap:]
OverlapText(current_chunk, overlap) == Suffix(current_chunk, overlap)

\* one iteration of the loop over sentences; st = [chunks, current_chunk]
PackSentence(st, raw, size, overlap) ==
    LET sentence == Strip(raw) IN
    IF sentence = << >> THEN st
    ELSE IF ExceedsChunkSize(st.current_chunk, sentence, size)
         THEN LET closed == IF st.current_chunk # << >>
                            THEN Append(st.chunks, Strip(st.current_chunk))
                            ELSE st.chunks
              IN [chunks |-> closed,
                  current_chunk |->
                      IF closed # << >> /\ overlap > 0
                      THEN OverlapText(st.current_chunk, overlap)
                               \o << " " >> \o sentence
                      ELSE sentence]
         ELSE [chunks |-> st.chunks,
               current_chunk |->
                   IF st.current_chunk # << >>
                   THEN st.current_chunk \o << " " >> \o sentence
                   ELSE sentence]

\* the loop state after the first n pieces of `sentences`
RECURSIVE PackState(_, _, _, _)
PackState(sentences, n, size, overlap) ==
    IF n = 0 THEN [chunks |-> << >>, current_chunk |-> << >>]
    ELSE PackSentence(PackState(sentences, n - 1, size, overlap),
                      sentences[n], size, overlap)

\* a return that forgets the remaining buffer
FlushChunk_NoFlush(st) == st.chunks

\* a flush without the test of line 52
FlushChunk_Unguarded(st) == Append(st.chunks, Strip(st.current_chunk))

\* a flush that appends the buffer as it is
FlushChunk_Unstripped(st) ==
    IF st.current_chunk # << >>
    THEN Append(st.chunks, st.current_chunk)
    ELSE st.chunks

\* lines 51-55: flush the remaining buffer and return
FlushChunk(st) ==
    IF st.current_chunk # << >>
    THEN Append(st.chunks, Strip(st.current_chunk))
    ELSE st.chunks

ChunkBySentences(s, size, overlap) ==
    LET sentences == ReSplitSentences(s)
    IN FlushChunk(PackState(sentences, Len(sentences), size, overlap))

(***************************************************************************)
(* TextChunker.chunk_by_sections                                           *)
(***************************************************************************)
\* the default section_markers of lines 62-65
DefaultSectionMarkers ==
    << << "S", "e", "c", "t", "i", "o", "n" >>,
       << "C", "h", "a", "p", "t", "e", "r" >>,
       << "R", "u", "l", "e" >>,
       << "C", "l", "a", "u", "s", "e" >>,
       << "S", "u", "b", "s", "e", "c", "t", "i", "o", "n" >>,
       << "P", "a", "r", "a" >>,
       << "A", "r", "t", "i", "c", "l", "e" >> >>

\* the initial current_title of line 69
Introduction == << "I", "n", "t", "r", "o", "d", "u", "c", "t", "i", "o", "n" >>

\* the title length limit of line 95
TitleLimit == 100

\* text.split('\n'): the lines of s from index `start` on, scanning from i
RECURSIVE SplitLinesFrom(_, _, _)
SplitLinesFrom(s, start, i) ==
    IF i > Len(s) THEN << SubSeq(s, start, Len(s)) >>
    ELSE IF s[i] = "\n"
         THEN << SubSeq(s, start, i - 1) >> \o SplitLinesFrom(s, i + 1, i + 1)
         ELSE SplitLinesFrom(s, start, i + 1)

SplitLines(s) == SplitLinesFrom(s, 1, 1)

\* re.match(r'^\d+\.', line)
NumberedHeading(line) ==
    /\ RunEnd(line, 1, Digits) >= 1
    /\ RunEnd(line, 1, Digits) < Len(line)
    /\ line[RunEnd(line, 1, Digits) + 1] = "."

\* a header test whose numbered pattern lacks the dot
IsSectionHeader_AnyDigit(line, section_markers) ==
    \/ \E m \in 1..Len(section_markers) :
           StartsWith(Lower(line), Lower(section_markers[m]))
    \/ RunEnd(line, 1, Digits) >= 1

\* a header test that compares the markers as written
IsSectionHeader_CaseSensitive(line, section_markers) ==
    \/ \E m \in 1..Len(section_markers) :
           StartsWith(line, section_markers[m])
    \/ NumberedHeading(line)

\* lines 79-81, for a stripped line
IsSectionHeader(line, section_markers) ==
    \/ \E m \in 1..Len(section_markers) :
           StartsWith(Lower(line), Lower(section_markers[m]))
    \/ NumberedHeading(line)

\* records numbered from one
SectionRecords_OneBased(section_chunks, title) ==
    [i \in 1..Len(section_chunks) |->
        [text |-> section_chunks[i],
         section_title |-> title,
         chunk_index |-> i,
         total_chunks |-> Len(section_chunks)]]

\* lines 85-92 and 102-109: the records of one section
SectionRecords(section_chunks, title) ==
    [i \in 1..Len(section_chunks) |->
        [text |-> section_chunks[i],
         section_title |-> title,
         chunk_index |-> i - 1,
         total_chunks |-> Len(section_chunks)]]

\* a title that is not truncated
SectionTitle_Untruncated(line) == line

\* line 95: current_title = line[:100]
SectionTitle(line) == Take(line, TitleLimit)

\* an iteration in which every heading line opens a titled section, also
\* with an empty section buffer
SectionLine_HeadingAlwaysOpens(st, raw, section_markers, size, overlap) ==
    LET line == Strip(raw) IN
    IF line = << >> THEN st
    ELSE IF IsSectionHeader(line, section_markers)
         THEN [chunks |-> st.chunks \o
                   SectionRecords(
                       ChunkBySentences(st.current_section, size, overlap),
                       st.current_title),
               current_section |-> line,
               current_title |-> SectionTitle(line)]
         ELSE [chunks |-> st.chunks,
               current_section |-> st.current_section \o << "\n" >> \o line,
               current_title |-> st.current_title]

\* one iteration of the loop over lines;
\* st = [chunks, current_section, current_title]
SectionLine(st, raw, section_markers, size, overlap) ==
    LET line == Strip(raw) IN
    IF line = << >> THEN st
    ELSE IF IsSectionHeader(line, section_markers) /\ st.current_section # << >>
         THEN [chunks |-> st.chunks \o
                   SectionRecords(
                       ChunkBySentences(st.current_section, size, overlap),
                       st.current_title),
               current_section |-> line,
               current_title |-> SectionTitle(line)]
         ELSE [chunks |-> st.chunks,
               current_section |-> st.current_section \o << "\n" >> \o line,
               current_title |-> st.current_title]

\* the loop state after the first n lines
RECURSIVE SectionState(_, _, _, _, _)
SectionState(lines, n, section_markers, size, overlap) ==
    IF n = 0
    THEN [chunks |-> << >>, current_section |-> << >>,
          current_title |-> Introduction]
    ELSE SectionLine(SectionState(lines, n - 1, section_markers, size, overlap),
                     lines[n], section_markers, size, overlap)

\* lines 100-111: process the final section and return
FlushSection(st, size, overlap) ==
    IF st.current_section # << >>
    THEN st.chunks \o
         SectionRecords(ChunkBySentences(st.current_section, size, overlap),
                        st.current_title)
    ELSE st.chunks

ChunkBySections(s, section_markers, size, overlap) ==
    LET lines == SplitLines(s)
    IN FlushSection(
           SectionState(lines, Len(lines), section_markers, size, overlap),
           size, overlap)

(***************************************************************************)
(* extract_metadata (vector.py)                                            *)
(*                                                                         *)
(* A pathlib.Path is modelled by the sequence of its components; an        *)
(* Optional value by the empty tuple (None) or a one-element tuple.        *)
(***************************************************************************)
\* the string literals of lines 22-80
Str_RBI == << "R", "B", "I" >>
Str_SEBI == << "S", "E", "B", "I" >>
Str_AMFI == << "A", "M", "F", "I" >>
Str_Other == << "O", "t", "h", "e", "r" >>
Str_General == << "G", "e", "n", "e", "r", "a", "l" >>
Str_Literacy == << "L", "i", "t", "e", "r", "a", "c", "y" >>
Str_Guide == << "G", "u", "i", "d", "e" >>
Str_PPT == << "P", "P", "T" >>
Str_Booklet == << "B", "o", "o", "k", "l", "e", "t" >>
Str_Brochure == << "B", "r", "o", "c", "h", "u", "r", "e" >>
Str_Report == << "R", "e", "p", "o", "r", "t" >>
Str_Data == << "D", "a", "t", "a" >>
Str_Beginners == << "B", "e", "g", "i", "n", "n", "e", "r", "s" >>
Str_Advanced == << "A", "d", "v", "a", "n", "c", "e", "d" >>
Str_Intermediate ==
    << "I", "n", "t", "e", "r", "m", "e", "d", "i", "a", "t", "e" >>
Str_FinancingTopic ==
    << "F", "i", "n", "a", "n", "c", "i", "n", "g", " ", "N", "e", "e", "d",
       "s", " ", "o", "f", " ", "M", "i", "c", "r", "o", " ", "a", "n", "d",
       " ", "S", "m", "a", "l", "l", " ", "E", "n", "t", "e", "r", "p", "r",
       "i", "s", "e", "s" >>
Kw_FINANCIAL_LITERACY ==
    << "F", "I", "N", "A", "N", "C", "I", "A", "L", " ", "L", "I", "T", "E",
       "R", "A", "C", "Y" >>
Kw_Financing_needs ==
    << "F", "i", "n", "a", "n", "c", "i", "n", "g", " ", "n", "e", "e", "d",
       "s" >>
Kw_PPT_dash == << "P", "P", "T", "-" >>
Kw_Mutual_Fund == << "M", "u", "t", "u", "a", "l", "-", "F", "u", "n", "d" >>
Kw_beginners == << "b", "e", "g", "i", "n", "n", "e", "r", "s" >>
Kw_Beginners == << "B", "e", "g", "i", "n", "n", "e", "r", "s" >>
Kw_Advance == << "A", "d", "v", "a", "n", "c", "e" >>
Kw_intermediate ==
    << "i", "n", "t", "e", "r", "m", "e", "d", "i", "a", "t", "e" >>
Kw_Booklet == << "B", "o", "o", "k", "l", "e", "t" >>
Kw_brochure == << "b", "r", "o", "c", "h", "u", "r", "e" >>
Kw_Strategy == << "S", "t", "r", "a", "t", "e", "g", "y" >>
Kw_NAVAll == << "N", "A", "V", "A", "l", "l" >>
Kw_for == << "f", "o", "r" >>

\* the month alternatives of the date pattern of line 56, lower-cased
MonthAbbreviations ==
    { << "j", "a", "n" >>, << "f", "e", "b" >>, << "m", "a", "r" >>,
      << "a", "p", "r" >>, << "m", "a", "y" >>, << "j", "u", "n" >>,
      << "j", "u", "l" >>, << "a", "u", "g" >>, << "s", "e", "p" >>,
      << "o", "c", "t" >>, << "n", "o", "v" >>, << "d", "e", "c" >> }

None == << >>

Some(x) == << x >>

\* the ASCII letters: [A-Za-z], and [a-z] under re.IGNORECASE
Letters == { UpperLetters[i] : i \in 1..26 } \cup { LowerLetters[i] : i \in 1..26 }

\* Path.name: the last component ('' for the empty path)
PathName(path) == IF Len(path) = 0 THEN << >> ELSE path[Len(path)]

\* Path.parent.name: the last component but one ('' when there is none)
PathParentName(path) == IF Len(path) < 2 THEN << >> ELSE path[Len(path) - 1]

\* Path.stem: the name without its last suffix; a leading or trailing dot
\* starts no suffix
PathStem(path) ==
    LET name == PathName(path)
        dots == { i \in 1..Len(name) : name[i] = "." }
        last == CHOOSE i \in dots : \A j \in dots : j <= i
    IN IF dots # {} /\ 1 < last /\ last < Len(name)
       THEN SubSeq(name, 1, last - 1)
       ELSE name

\* str.replace(old, new) for one-character old and new
Replace(s, old, new) == [i \in 1..Len(s) |-> IF s[i] = old THEN new ELSE s[i]]

\* a default topic that keeps the hyphens
DefaultTopic_UnderscoresOnly(path) == Replace(PathStem(path), "_", " ")

\* line 25
DefaultTopic(path) == Replace(Replace(PathStem(path), "_", " "), "-", " ")

\* the folder name as written, without upper-casing
Folder_AsWritten(path) == PathParentName(path)

\* line 19
Folder(path) == Upper(PathParentName(path))

\* the group of r"for\s+([A-Za-z ]+)" (re.IGNORECASE) matched at i, as an
\* Optional.  \s+ is greedy; when no letter follows the whitespace run it
\* gives back characters until the group can start at a space of the run.
ForGroupAt(s, i) ==
    LET w == RunEnd(s, i + 3, Whitespace)
        starts == IF w + 1 <= Len(s) /\ s[w + 1] \in Letters
                  THEN { w + 1 }
                  ELSE { g \in (i + 4)..w : s[g] = " " }
        g == CHOOSE x \in starts : \A y \in starts : y <= x
    IN IF /\ i + 2 <= Len(s)
          /\ Lower(SubSeq(s, i, i + 2)) = Kw_for
          /\ w >= i + 3
          /\ starts # {}
       THEN Some(SubSeq(s, g, RunEnd(s, g, Letters \cup {" "})))
       ELSE None

\* re.search(r"for\s+([A-Za-z ]+)", filename, re.IGNORECASE).group(1) of
\* line 38, as an Optional
SearchForGroup(s) ==
    LET hits == { i \in 1..Len(s) : ForGroupAt(s, i) # None }
    IN IF hits = {} THEN None
       ELSE ForGroupAt(s, CHOOSE i \in hits : \A j \in hits : i <= j)

\* int(digits)
RECURSIVE DigitsValue(_)
DigitsValue(ds) ==
    IF ds = << >> THEN 0
    ELSE 10 * DigitsValue(SubSeq(ds, 1, Len(ds) - 1))
         + (CHOOSE v \in 0..9 :
                ds[Len(ds)] = <<"0","1","2","3","4","5","6","7","8","9">>[v + 1])

\* a ppt_id read from the first digit only
PptId_FirstDigit(filename) ==
    IF /\ StartsWith(Upper(filename), Kw_PPT_dash)
       /\ RunEnd(filename, 5, Digits) >= 5
    THEN Some(DigitsValue(SubSeq(filename, 5, 5)))
    ELSE None

\* lines 51-53: re.match(r"PPT-(\d+)", filename, re.IGNORECASE), as an
\* Optional int
PptId(filename) ==
    IF /\ StartsWith(Upper(filename), Kw_PPT_dash)
       /\ RunEnd(filename, 5, Digits) >= 5
    THEN Some(DigitsValue(SubSeq(filename, 5, RunEnd(filename, 5, Digits))))
    ELSE None

\* index of the last character of the date pattern of line 56 matched at i
\* (0 when it does not match at i): month, [a-z]*, [ _-]?, \d{2,4}
DateEndAt(s, i) ==
    LET l == RunEnd(s, i + 3, Letters)
        p == IF l + 1 <= Len(s) /\ s[l + 1] \in {" ", "_", "-"} THEN l + 1 ELSE l
        d == RunEnd(s, p + 1, Digits)
    IN IF /\ i + 2 <= Len(s)
          /\ Lower(SubSeq(s, i, i + 2)) \in MonthAbbreviations
          /\ d - p >= 2
       THEN IF d - p > 4 THEN p + 4 ELSE d
       ELSE 0

\* lines 56-58: date_match.group(0), as an Optional
SearchDate(s) ==
    LET hits == { i \in 1..Len(s) : DateEndAt(s, i) > 0 }
        first == CHOOSE i \in hits : \A j \in hits : i <= j
    IN IF hits = {} THEN None
       ELSE Some(SubSeq(s, first, DateEndAt(s, first)))

\* lines 22-31
DefaultMetadata(path) ==
    [source |-> Folder(path),
     category |-> Str_Other,
     topic |-> DefaultTopic(path),
     audience |-> Str_General,
     ppt_id |-> None,
     date |-> None,
     filename |-> PathName(path),
     page_number |-> None]

\* RBI rules that test "Financing needs" before "FINANCIAL LITERACY"
RbiMetadata_GuideFirst(m, filename) ==
    IF Contains(filename, Kw_Financing_needs)
    THEN [m EXCEPT !.category = Str_Guide, !.topic = Str_FinancingTopic]
    ELSE IF Contains(Upper(filename), Kw_FINANCIAL_LITERACY)
         THEN [m EXCEPT !.category = Str_Literacy,
                        !.audience = IF SearchForGroup(filename) # None
                                     THEN Strip(SearchForGroup(filename)[1])
                                     ELSE @]
         ELSE m

\* lines 34-44
RbiMetadata(m, filename) ==
    IF Contains(Upper(filename), Kw_FINANCIAL_LITERACY)
    THEN [m EXCEPT !.category = Str_Literacy,
                   !.audience = IF SearchForGroup(filename) # None
                                THEN Strip(SearchForGroup(filename)[1])
                                ELSE @]
    ELSE IF Contains(filename, Kw_Financing_needs)
         THEN [m EXCEPT !.category = Str_Guide, !.topic = Str_FinancingTopic]
         ELSE m

\* an audience that tests "Advance" before "Beginners"
GuideAudience_AdvancedFirst(filename, default) ==
    IF Contains(filename, Kw_Advance) THEN Str_Advanced
    ELSE IF Contains(filename, Kw_Beginners) THEN Str_Beginners
    ELSE IF Contains(Lower(filename), Kw_intermediate) THEN Str_Intermediate
    ELSE default

\* lines 62-67
GuideAudience(filename, default) ==
    IF Contains(filename, Kw_Beginners) THEN Str_Beginners
    ELSE IF Contains(filename, Kw_Advance) THEN Str_Advanced
    ELSE IF Contains(Lower(filename), Kw_intermediate) THEN Str_Intermediate
    ELSE default

\* SEBI rules that test "Booklet" before the guide keywords
SebiMetadata_BookletFirst(m, filename) ==
    IF StartsWith(Upper(filename), Kw_PPT_dash)
    THEN [m EXCEPT !.category = Str_PPT,
                   !.ppt_id = PptId(filename),
                   !.date = SearchDate(filename)]
    ELSE IF Contains(filename, Kw_Booklet)
         THEN [m EXCEPT !.category = Str_Booklet]
    ELSE IF \/ Contains(filename, Kw_Mutual_Fund)
            \/ Contains(Lower(filename), Kw_beginners)
         THEN [m EXCEPT !.category = Str_Guide,
                        !.audience = GuideAudience(filename, @)]
    ELSE IF Contains(Lower(filename), Kw_brochure)
         THEN [m EXCEPT !.category = Str_Brochure]
    ELSE m

\* SEBI rules whose last branch takes every remaining file for a brochure
SebiMetadata_ElseBrochure(m, filename) ==
    IF StartsWith(Upper(filename), Kw_PPT_dash)
    THEN [m EXCEPT !.category = Str_PPT,
                   !.ppt_id = PptId(filename),
                   !.date = SearchDate(filename)]
    ELSE IF \/ Contains(filename, Kw_Mutual_Fund)
            \/ Contains(Lower(filename), Kw_beginners)
         THEN [m EXCEPT !.category = Str_Guide,
                        !.audience = GuideAudience(filename, @)]
    ELSE IF Contains(filename, Kw_Booklet)
         THEN [m EXCEPT !.category = Str_Booklet]
    ELSE [m EXCEPT !.category = Str_Brochure]

\* lines 47-73
SebiMetadata(m, filename) ==
    IF StartsWith(Upper(filename), Kw_PPT_dash)
    THEN [m EXCEPT !.category = Str_PPT,
                   !.ppt_id = PptId(filename),
                   !.date = SearchDate(filename)]
    ELSE IF \/ Contains(filename, Kw_Mutual_Fund)
            \/ Contains(Lower(filename), Kw_beginners)
         THEN [m EXCEPT !.category = Str_Guide,
                        !.audience = GuideAudience(filename, @)]
    ELSE IF Contains(filename, Kw_Booklet)
         THEN [m EXCEPT !.category = Str_Booklet]
    ELSE IF Contains(Lower(filename), Kw_brochure)
         THEN [m EXCEPT !.category = Str_Brochure]
    ELSE m

\* AMFI rules that test "NAVAll" before "Strategy"
AmfiMetadata_DataFirst(m, filename) ==
    IF Contains(filename, Kw_NAVAll) THEN [m EXCEPT !.category = Str_Data]
    ELSE IF Contains(filename, Kw_Strategy) THEN [m EXCEPT !.category = Str_Report]
    ELSE m

\* lines 76-80
AmfiMetadata(m, filename) ==
    IF Contains(filename, Kw_Strategy) THEN [m EXCEPT !.category = Str_Report]
    ELSE IF Contains(filename, Kw_NAVAll) THEN [m EXCEPT !.category = Str_Data]
    ELSE m

\* a dispatch that takes every folder beginning with a source name
ExtractMetadata_FolderPrefix(path) ==
    LET m == DefaultMetadata(path)
        filename == PathName(path)
        folder == Folder(path)
    IN IF StartsWith(folder, Str_RBI) THEN RbiMetadata(m, filename)
       ELSE IF StartsWith(folder, Str_SEBI) THEN SebiMetadata(m, filename)
       ELSE IF StartsWith(folder, Str_AMFI) THEN AmfiMetadata(m, filename)
       ELSE m

\* lines 14-82
ExtractMetadata(path) ==
    LET m == DefaultMetadata(path)
        filename == PathName(path)
        folder == Folder(path)
    IN IF folder = Str_RBI THEN RbiMetadata(m, filename)
       ELSE IF folder = Str_SEBI THEN SebiMetadata(m, filename)
       ELSE IF folder = Str_AMFI THEN AmfiMetadata(m, filename)
       ELSE m

(***************************************************************************)
(* The checked inputs.                                                     *)
(***************************************************************************)
(***************************************************************************)
(* Concurrent invocations on one TextChunker                               *)
(*                                                                         *)
(* Every invocation has a frame of its own: calls[t] holds the position    *)
(* and the local variables of invocation t.  A step is the prologue, one   *)
(* loop iteration, or the epilogue of a method.                            *)
(***************************************************************************)
\* the frame of a call of `method` on `input` that has not started
NewCall(method, input) ==
    [method |-> method, text |-> input, pc |-> "called",
     items |-> << >>, n |-> 0,
     chunks |-> << >>, current_chunk |-> << >>,
     current_section |-> << >>, current_title |-> << >>,
     result |-> << >>]

\* an assignment that keeps the sentence buffer on the shared TextChunker
SetLocals_BufferOnSelf(cs, t, locals) ==
    [u \in DOMAIN cs |->
        [f \in DOMAIN cs[u] |->
            IF f \in DOMAIN locals /\ (u = t \/ f = "current_chunk")
            THEN locals[f]
            ELSE cs[u][f]]]

\* assignment to local variables (lines 26-29, 32-49, 67-71, 74-98): the
\* names live in the frame of invocation t
SetLocals(cs, t, locals) ==
    [cs EXCEPT ![t] =
        locals @@ [f \in DOMAIN cs[t] \ DOMAIN locals |-> cs[t][f]]]

\* lines 26-29
EnterSentences(cs, t) ==
    SetLocals(cs, t, [pc |-> "loop", n |-> 0,
                      items |-> ReSplitSentences(cs[t].text),
                      chunks |-> << >>, current_chunk |-> << >>])

\* a loop that stays at a sentence longer than chunk_size until it fits
IterateSentences_RetryOversized(cs, t, size, overlap) ==
    LET sentence == Strip(cs[t].items[cs[t].n + 1])
        st == PackSentence([chunks |-> cs[t].chunks,
                            current_chunk |-> cs[t].current_chunk],
                           cs[t].items[cs[t].n + 1], size, overlap)
    IN IF sentence # << >> /\ Len(sentence) > size
       THEN cs
       ELSE SetLocals(cs, t, [n |-> cs[t].n + 1, chunks |-> st.chunks,
                              current_chunk |-> st.current_chunk])

\* lines 31-49: one iteration, reading self.chunk_size and
\* self.chunk_overlap
IterateSentences(cs, t, size, overlap) ==
    LET st == PackSentence([chunks |-> cs[t].chunks,
                            current_chunk |-> cs[t].current_chunk],
                           cs[t].items[cs[t].n + 1], size, overlap)
    IN SetLocals(cs, t, [n |-> cs[t].n + 1, chunks |-> st.chunks,
                         current_chunk |-> st.current_chunk])

\* lines 51-55
ReturnSentences(cs, t) ==
    SetLocals(cs, t, [pc |-> "returned",
                      result |-> FlushChunk([chunks |-> cs[t].chunks,
                                             current_chunk |-> cs[t].current_chunk])])

\* lines 61-71
EnterSections(cs, t) ==
    SetLocals(cs, t, [pc |-> "loop", n |-> 0,
                      items |-> SplitLines(cs[t].text),
                      chunks |-> << >>, current_section |-> << >>,
                      current_title |-> Introduction])

\* lines 73-98: one iteration
IterateSections(cs, t, size, overlap) ==
    LET st == SectionLine([chunks |-> cs[t].chunks,
                           current_section |-> cs[t].current_section,
                           current_title |-> cs[t].current_title],
                          cs[t].items[cs[t].n + 1], DefaultSectionMarkers,
                          size, overlap)
    IN SetLocals(cs, t, [n |-> cs[t].n + 1, chunks |-> st.chunks,
                         current_section |-> st.current_section,
                         current_title |-> st.current_title])

\* lines 100-111
ReturnSections(cs, t, size, overlap) ==
    SetLocals(cs, t,
              [pc |-> "returned",
               result |-> FlushSection([chunks |-> cs[t].chunks,
                                        current_section |-> cs[t].current_section,
                                        current_title |-> cs[t].current_title],
                                       size, overlap)])

(***************************************************************************)
(* VectorDBIngestion.ingest_tax_data                                       *)
(*                                                                         *)
(* An item of tax_rules.json is a function from the keys it holds to       *)
(* their values; tax_file is None when the file does not exist.            *)
(***************************************************************************)
\* TextChunker(chunk_size=800, chunk_overlap=100) of line 254
IngestChunkSize == 800
IngestChunkOverlap == 100

\* line 295: only content longer than this is processed
ContentThreshold == 100

\* line 315
BatchSize == 100

Str_Unknown == << "U", "n", "k", "n", "o", "w", "n" >>
Str_tax == << "t", "a", "x" >>

\* dict.get(key, default)
ItemGet(item, key, default) ==
    IF key \in DOMAIN item THEN item[key] ELSE default

\* lines 302-310: the metadata of chunk i of an item
ChunkMetadata(item, i, content) ==
    [title |-> ItemGet(item, "title", Str_Unknown),
     source |-> ItemGet(item, "source_url",
                        ItemGet(item, "source_file", Str_Unknown)),
     type |-> ItemGet(item, "type", Str_tax),
     year |-> ItemGet(item, "year", Str_Unknown),
     extracted_date |-> ItemGet(item, "extracted_date", Str_Unknown),
     chunk_index |-> i,
     original_length |-> Len(content)]

\* lines 294-311 for one item: its documents and metadatas
ItemEntries(item, size, overlap) ==
    LET content == ItemGet(item, "content", << >>)
        item_chunks == IF Len(content) > ContentThreshold
                       THEN ChunkBySentences(content, size, overlap)
                       ELSE << >>
    IN [i \in 1..Len(item_chunks) |->
           [document |-> item_chunks[i],
            metadata |-> ChunkMetadata(item, i - 1, content)]]

\* lines 292-311: documents and metadatas of all items, in order
RECURSIVE AllEntries(_, _, _)
AllEntries(tax_data, size, overlap) ==
    IF Len(tax_data) = 0 THEN << >>
    ELSE ItemEntries(tax_data[1], size, overlap)
             \o AllEntries(Tail(tax_data), size, overlap)

\* line 299: doc_id = f"tax_{uuid.uuid4().hex}_{i}", kept in its parts
WithIds(entries, uuids) ==
    [k \in 1..Len(entries) |->
        [document |-> entries[k].document,
         metadata |-> entries[k].metadata,
         id |-> [prefix |-> Str_tax, uuid |-> uuids[k],
                 index |-> entries[k].metadata.chunk_index]]]

\* lines 316-325: collection.add batch by batch
RECURSIVE AddBatches(_, _, _)
AddBatches(collection, entries, batch_size) ==
    IF Len(entries) = 0 THEN collection
    ELSE AddBatches(collection \o Take(entries, batch_size),
                    SubSeq(entries, batch_size + 1, Len(entries)),
                    batch_size)

(***************************************************************************)
(* FinancialDataOrchestrator.collect_all_data (main.py)                    *)
(*                                                                         *)
(* A dict is modelled by the function from its keys to their values.  A    *)
(* collector call either returns the dict of its return statement or       *)
(* raises an Exception; `outcomes` records what the collectors called in   *)
(* the current call did.                                                   *)
(***************************************************************************)
\* {} of line 32
EmptyDict == << >>

\* d[key] = value
SetItem(d, key, value) == (key :> value) @@ d

\* the collectors called at lines 45-46, 56-57, 67-68 and 78-79
Collectors ==
    << "TaxRuleScraper.collect_all_tax_data",
       "InvestmentDataCollector.collect_all_investment_data",
       "MarketDataCollector.collect_market_data",
       "BudgetingRulesCollector.collect_budgeting_rules" >>

\* the keys of self.results assigned at lines 47/50, 58/61, 69/72, 80/83
PhaseKeys ==
    << "tax_data", "investment_data", "market_data", "budgeting_data" >>

NumPhases == Len(PhaseKeys)

\* the dict a collector returns after collecting n entries
CollectorResult(i, n) ==
    CASE i = 1 -> [total_entries |-> n, pdf_chunks |-> 0,
                   website_entries |-> 0, hardcoded_entries |-> n,
                   output_file |-> "tax_rules.json"]
      [] i = 2 -> [total_options |-> n, categories |-> << >>,
                   risk_levels |-> << >>,
                   output_file |-> "investment_options.json"]
      [] i = 3 -> [tickers_collected |-> << >>, total_tickers |-> n,
                   date_range |-> "N/A", output_file |-> "market_data_combined.csv"]
      [] i = 4 -> [total_rules |-> n, categories |-> << >>,
                   general_rules |-> n, indian_rules |-> 0,
                   output_file |-> "budgeting_rules.json"]

\* str(e) of the exceptions a collector raises
Messages == { "timed out" }

\* what the call of collector i can do: return its dict or raise
Outcomes(i) ==
    { [collector |-> Collectors[i], raised |-> FALSE,
       value |-> CollectorResult(i, n)] : n \in 0..MaxEntries }
        \cup { [collector |-> Collectors[i], raised |-> TRUE,
                message |-> m] : m \in Messages }

\* lines 44-50 (55-61, 66-72, 77-83): the entry a phase stores
PhaseEntry(outcome) ==
    IF outcome.raised THEN [error |-> outcome.message] ELSE outcome.value

\* a count of line 103 that does not leave out the summary of an earlier
\* call
PhasesCompleted_CountsSummary(res) ==
    Cardinality({ k \in DOMAIN res : "error" \notin DOMAIN res[k] })

\* line 103
PhasesCompleted(res) ==
    Cardinality({ k \in DOMAIN res :
                    k # "summary" /\ "error" \notin DOMAIN res[k] })

\* line 104
PhasesWithErrors(res) ==
    Cardinality({ k \in DOMAIN res :
                    k # "summary" /\ "error" \in DOMAIN res[k] })

\* round(total_time / 60, 2), times counted in hundredths
MinutesOf(total_time) == (total_time + 30) \div 60

\* lines 100-106; total_time in hundredths of a second
Summary(res, total_time, timestamp) ==
    [total_execution_time_seconds |-> total_time,
     total_execution_time_minutes |-> MinutesOf(total_time),
     phases_completed |-> PhasesCompleted(res),
     phases_with_errors |-> PhasesWithErrors(res),
     timestamp |-> timestamp]

\* readings of the clock: elapsed hundredths of a second, and the time of
\* day as time.strftime formats it
ElapsedTimes == { 0, 6000 }

Timestamps == { "2024-01-01 00:00:00" }

(***************************************************************************)
(* TaxRuleScraper.extract_text_from_pdf (scrapers/tax_scraper.py)          *)
(*                                                                         *)
(* A document is the sequence of the texts page.get_text() returns, with   *)
(* the place where fitz raises: 0 for fitz.open, k for the k-th page, and  *)
(* a number beyond the last page when nothing raises.                      *)
(***************************************************************************)
\* the character limit of line 180
ChunkLimit == 2000

\* CURRENT_TAX_YEAR
CurrentTaxYear == "2024-25"

DecimalDigits == << "0", "1", "2", "3", "4", "5", "6", "7", "8", "9" >>

\* str(n) for n >= 0
RECURSIVE DecimalString(_)
DecimalString(n) ==
    IF n < 10 THEN << DecimalDigits[n + 1] >>
    ELSE DecimalString(n \div 10) \o << DecimalDigits[(n % 10) + 1] >>

\* f'{pdf_name} - Chunk {chunk_num}'
ChunkTitle(pdf_name, chunk_num) ==
    pdf_name \o << " ", "-", " ", "C", "h", "u", "n", "k", " " >>
        \o DecimalString(chunk_num)

\* max(1, page_num)
PageStart(page_num) == IF page_num > 1 THEN page_num ELSE 1

\* the dict of lines 182-190 and 198-206
PdfChunk(pdf_path, chunk_num, current_chunk, page_start, today) ==
    [title |-> ChunkTitle(PathStem(pdf_path), chunk_num),
     content |-> Strip(current_chunk),
     source_file |-> pdf_path,
     type |-> "pdf_extract",
     page_start |-> page_start,
     year |-> CurrentTaxYear,
     extracted_date |-> today]

\* lines 175-194: the iteration for the page of index page_num (from 0);
\* st = [chunks, current_chunk, chunk_num]
ExtractPage(st, page_num, page_text, pdf_path, today) ==
    IF Len(st.current_chunk) + Len(page_text) > ChunkLimit
    THEN IF Strip(st.current_chunk) # << >>
         THEN [chunks |->
                   Append(st.chunks,
                          PdfChunk(pdf_path, st.chunk_num, st.current_chunk,
                                   PageStart(page_num), today)),
               current_chunk |-> page_text,
               chunk_num |-> st.chunk_num + 1]
         ELSE st
    ELSE [st EXCEPT !.current_chunk = st.current_chunk \o << " " >> \o page_text]

\* the loop state after the first n pages
RECURSIVE ExtractState(_, _, _, _)
ExtractState(pages, n, pdf_path, today) ==
    IF n = 0 THEN [chunks |-> << >>, current_chunk |-> << >>, chunk_num |-> 1]
    ELSE ExtractPage(ExtractState(pages, n - 1, pdf_path, today),
                     n - 1, pages[n], pdf_path, today)

\* lines 196-207: the last chunk
LastChunk(st, pages, pdf_path, today) ==
    IF Strip(st.current_chunk) # << >>
    THEN Append(st.chunks,
                PdfChunk(pdf_path, st.chunk_num, st.current_chunk,
                         Len(pages), today))
    ELSE st.chunks

\* lines 162-214; an exception leaves the loop for the handler of line 211
\* and the chunks appended so far are returned
ExtractTextFromPdf(document, pdf_path, today) ==
    IF document.fails_at = 0 THEN << >>
    ELSE IF document.fails_at <= Len(document.pages)
    THEN ExtractState(document.pages, document.fails_at - 1,
                      pdf_path, today).chunks
    ELSE LastChunk(ExtractState(document.pages, Len(document.pages),
                                pdf_path, today),
                   document.pages, pdf_path, today)

\* no document: the state of the variable outside the extractor
NoDocument == [pages |-> << >>, fails_at |-> 1]

\* texts for the sentence packer: every string over a small alphabet
Alphabet == {"a", "b", ".", " "}

\* the example text "A. B. C."
ExampleText == << "A", ".", " ", "B", ".", " ", "C", "." >>

\* the abbreviation example "Rs. 5"
AbbreviationText == << "R", "s", ".", " ", "5" >>

SentenceTexts ==
    UNION { [1..n -> Alphabet] : n \in 0..MaxLen }
        \cup { ExampleText, AbbreviationText }

\* a heading line longer than TitleLimit: "Rule" followed by 98 times "x"
LongHeading == << "R", "u", "l", "e" >> \o [i \in 1..98 |-> "x"]

\* lines for the section segmenter: blank, plain, two sentences, marker
\* headings (one indented and lower-case), a numbered heading, and a digit
\* line that is no heading
LineChoices ==
    { << >>,
      << "a", " ", "b" >>,
      << "b", ".", " ", "a" >>,
      << "R", "u", "l", "e", " ", "a" >>,
      << " ", "p", "a", "r", "a" >>,
      << "1", ".", " ", "b" >>,
      << "1", "a" >> }

\* '\n'.join(lines)
RECURSIVE JoinLines(_)
JoinLines(lines) ==
    IF Len(lines) = 0 THEN << >>
    ELSE IF Len(lines) = 1 THEN lines[1]
    ELSE lines[1] \o << "\n" >> \o JoinLines(Tail(lines))

\* up to MaxLines lines, and the over-long heading between any two lines
SectionTexts ==
    { JoinLines(ls) : ls \in UNION { [1..n -> LineChoices] : n \in 1..MaxLines } }
        \cup { JoinLines(<< a, LongHeading, b >>) : a, b \in LineChoices }

Texts == SentenceTexts \cup SectionTexts

ChunkSizes == 0..MaxChunkSize

ChunkOverlaps == 0..MaxOverlap

\* parent directory names
FolderNames ==
    { << "R", "B", "I" >>, << "r", "b", "i" >>, << "S", "e", "b", "i" >>,
      << "A", "M", "F", "I" >>, << "m", "i", "s", "c" >>,
      << "S", "E", "B", "I", "2" >>, << "S", "E", "B", "I" >>,
      << "a", "m", "f", "i" >> }

\* pieces of file names
NameParts ==
    { << "P", "P", "T", "-" >>,
      << "4", "2" >>,
      << "-", "J", "a", "n", "2", "0", "2", "4" >>,
      << "_" >>,
      << ".", "p", "d", "f" >>,
      << "M", "u", "t", "u", "a", "l", "-", "F", "u", "n", "d" >>,
      << "B", "e", "g", "i", "n", "n", "e", "r", "s" >>,
      << "b", "e", "g", "i", "n", "n", "e", "r", "s" >>,
      << "A", "d", "v", "a", "n", "c", "e" >>,
      << "I", "n", "t", "e", "r", "m", "e", "d", "i", "a", "t", "e" >>,
      << "B", "o", "o", "k", "l", "e", "t" >>,
      << "B", "r", "o", "c", "h", "u", "r", "e" >>,
      << "F", "I", "N", "A", "N", "C", "I", "A", "L", " ", "L", "I", "T", "E", "R", "A", "C", "Y" >>,
      << "F", "i", "n", "a", "n", "c", "i", "a", "l", " ", "L", "i", "t", "e", "r", "a", "c", "y" >>,
      << " ", "f", "o", "r", " ", "S", "H", "G" >>,
      << " ", "f", "o", "r", " ", " ", "2" >>,
      << "F", "i", "n", "a", "n", "c", "i", "n", "g", " ", "n", "e", "e", "d", "s" >>,
      << "S", "t", "r", "a", "t", "e", "g", "y" >>,
      << "N", "A", "V", "A", "l", "l" >>,
      << "a" >> }

\* the example file name "PPT-42-Jan2024.pdf"
ExampleName ==
    << "P", "P", "T", "-", "4", "2", "-", "J", "a", "n", "2", "0", "2", "4",
       ".", "p", "d", "f" >>

RECURSIVE Concat(_)
Concat(parts) ==
    IF Len(parts) = 0 THEN << >> ELSE parts[1] \o Concat(Tail(parts))

\* audience words of the guides, in the cases the code tells apart
AudienceParts ==
    { << "B", "e", "g", "i", "n", "n", "e", "r", "s" >>,
      << "b", "e", "g", "i", "n", "n", "e", "r", "s" >>,
      << "A", "d", "v", "a", "n", "c", "e" >>,
      << "a", "d", "v", "a", "n", "c", "e", "d" >>,
      << "I", "n", "t", "e", "r", "m", "e", "d", "i", "a", "t", "e" >>,
      << "I", "N", "T", "E", "R", "M", "E", "D", "I", "A", "T", "E" >> }

\* "Mutual-Fund" followed by audience words
GuideNames ==
    { Kw_Mutual_Fund \o Concat(ps) :
        ps \in UNION { [1..n -> AudienceParts] : n \in 1..MaxNameParts } }

FileNames ==
    { Concat(ps) : ps \in UNION { [1..n -> NameParts] : n \in 1..MaxNameParts } }
        \cup GuideNames \cup { ExampleName }

\* data/<folder>/<name>, a bare <name>, and the empty path
Paths ==
    { << << "d", "a", "t", "a" >>, d, f >> : d \in FolderNames, f \in FileNames }
        \cup { << f >> : f \in FileNames } \cup { << >> }

(***************************************************************************)
(* The state machine: a TextChunker is constructed with its chunk_size and *)
(* chunk_overlap and one of its methods is called on a text, or            *)
(* extract_metadata is called on a path.                                   *)
(***************************************************************************)
\* texts of the concurrent callers: three sentences; a preamble, a marker
\* heading and two sentences; a numbered heading and a paragraph
ConcurrentTexts ==
    { << "a", ".", " ", "b", ".", " ", "a" >>,
      << "b", " ", "b", "\n", "R", "u", "l", "e", " ", "a", "\n", "a", ".", " ", "b" >>,
      << "1", ".", " ", "b", "\n", "a", " ", "a", ".", " ", "b" >> }

Methods == { "chunk_by_sentences", "chunk_by_sections" }

\* NumCalls pending invocations on pairwise distinct texts
CallSets ==
    { cs \in [1..NumCalls -> { NewCall(m, t) : m \in Methods, t \in ConcurrentTexts }] :
        \A u, v \in 1..NumCalls : u # v => cs[u].text # cs[v].text }

\* n times the character c
Repeat(c, n) == [i \in 1..n |-> c]

\* page texts: empty, short, whitespace only, a long page that fits the
\* limit (two of them do not), and a page longer than the limit
PageChoices ==
    { << >>,
      << "a", " ", "b" >>,
      << " ", "\n" >>,
      Repeat("x", 1200),
      Repeat("y", ChunkLimit) \o << "." >> }

\* up to MaxPages pages, and every place where fitz can raise
Documents ==
    { [pages |-> ps, fails_at |-> k] :
        ps \in UNION { [1..n -> PageChoices] : n \in 0..MaxPages },
        k \in 0..(MaxPages + 1) }

ReadableDocuments == { d \in Documents : d.fails_at <= Len(d.pages) + 1 }

\* the downloaded file "finance_act_2024.pdf" of line 41
PdfPaths ==
    { << << "d", "o", "w", "n", "l", "o", "a", "d", "s" >>,
         << "f", "i", "n", "a", "n", "c", "e", "_", "a", "c", "t", "_", "2",
            "0", "2", "4", ".", "p", "d", "f" >> >> }

\* time.strftime('%Y-%m-%d')
Dates == { "2024-01-01" }

\* contents: short; exactly ContentThreshold characters; one sentence just
\* above the threshold; three sentences of 300 characters
Contents ==
    { << "a", ".", " ", "b" >>,
      Repeat("x", 100),
      Repeat("x", 100) \o << "." >>,
      Repeat("x", 299) \o << ".", " " >> \o Repeat("y", 299)
          \o << ".", " " >> \o Repeat("z", 300) }

\* the keys an item may hold besides content: all of them, the source file
\* only, none
ItemKeys ==
    { [title |-> << "T" >>, source_url |-> << "u" >>, source_file |-> << "f" >>,
       type |-> << "a", "c", "t" >>, year |-> << "2", "4" >>,
       extracted_date |-> << "d" >>],
      [source_file |-> << "f" >>],
      << >> }

\* item m with the content c
WithContent(m, c) ==
    [k \in DOMAIN m \cup { "content" } |-> IF k = "content" THEN c ELSE m[k]]

\* items with every content, and one item without the key content
Items ==
    { WithContent(m, c) : m \in ItemKeys, c \in Contents }
        \cup { [title |-> << "T" >>] }

\* a missing file, or a list of up to MaxItems items
TaxFiles ==
    { None } \cup
    { Some(d) : d \in UNION { [1..n -> Items] : n \in 0..MaxItems } }

\* values of uuid.uuid4().hex
Uuids == { "u1", "u2" }

NoMetadata ==
    [source |-> << >>, category |-> << >>, topic |-> << >>, audience |-> << >>,
     ppt_id |-> None, date |-> None, filename |-> << >>, page_number |-> None]

Init ==
    /\ chunks = << >>
    /\ records = << >>
    /\ metadata = NoMetadata
    /\ tax_collection = << >>
    /\ ingest_result = None
    /\ results = EmptyDict
    /\ outcomes = << >>
    /\ runs = 0
    /\ pdf_chunks = << >>
    /\ \/ /\ pc = "chunker"
          /\ text \in Texts
          /\ chunk_size \in ChunkSizes
          /\ chunk_overlap \in ChunkOverlaps
          /\ file_path = << >>
          /\ calls = << >>
          /\ tax_file = None
       \/ /\ pc = "indexer"
          /\ text = << >>
          /\ chunk_size = 0
          /\ chunk_overlap = 0
          /\ file_path \in Paths
          /\ calls = << >>
          /\ tax_file = None
       \/ /\ pc = "callers"
          /\ text = << >>
          /\ chunk_size \in ChunkSizes
          /\ chunk_overlap \in ChunkOverlaps
          /\ file_path = << >>
          /\ calls \in CallSets
          /\ tax_file = None
       \/ /\ pc = "ingestion"
          /\ text = << >>
          /\ chunk_size = IngestChunkSize
          /\ chunk_overlap = IngestChunkOverlap
          /\ file_path = << >>
          /\ calls = << >>
          /\ tax_file \in TaxFiles
       \/ /\ pc = "orchestrator"
          /\ text = << >>
          /\ chunk_size = 0
          /\ chunk_overlap = 0
          /\ file_path = << >>
          /\ calls = << >>
          /\ tax_file = None
       \/ /\ pc = "extractor"
          /\ text = << >>
          /\ chunk_size = 0
          /\ chunk_overlap = 0
          /\ file_path \in PdfPaths
          /\ calls = << >>
          /\ tax_file = None
    /\ doc \in IF pc = "extractor" THEN ReadableDocuments ELSE { NoDocument }

CallChunkBySentences ==
    /\ pc = "chunker"
    /\ chunks' = ChunkBySentences(text, chunk_size, chunk_overlap)
    /\ pc' = "sentences_done"
    /\ UNCHANGED <<text, chunk_size, chunk_overlap, file_path, records, metadata,
                   calls, tax_file, tax_collection, ingest_result, pipeline_vars>>

CallChunkBySections ==
    /\ pc = "chunker"
    /\ records' = ChunkBySections(text, DefaultSectionMarkers,
                                  chunk_size, chunk_overlap)
    /\ pc' = "sections_done"
    /\ UNCHANGED <<text, chunk_size, chunk_overlap, file_path, chunks, metadata,
                   calls, tax_file, tax_collection, ingest_result, pipeline_vars>>

CallExtractMetadata ==
    /\ pc = "indexer"
    /\ metadata' = ExtractMetadata(file_path)
    /\ pc' = "metadata_done"
    /\ UNCHANGED <<text, chunk_size, chunk_overlap, file_path, chunks, records,
                   calls, tax_file, tax_collection, ingest_result, pipeline_vars>>

\* invocation t runs the prologue of its method
Enter(t) ==
    /\ pc = "callers"
    /\ calls[t].pc = "called"
    /\ calls' = IF calls[t].method = "chunk_by_sentences"
                THEN EnterSentences(calls, t)
                ELSE EnterSections(calls, t)
    /\ UNCHANGED <<pc, text, chunk_size, chunk_overlap, file_path, chunks,
                   records, metadata, tax_file, tax_collection, ingest_result, pipeline_vars>>

\* invocation t runs one iteration of its loop
Iterate(t) ==
    /\ pc = "callers"
    /\ calls[t].pc = "loop"
    /\ calls[t].n < Len(calls[t].items)
    /\ calls' = IF calls[t].method = "chunk_by_sentences"
                THEN IterateSentences(calls, t, chunk_size, chunk_overlap)
                ELSE IterateSections(calls, t, chunk_size, chunk_overlap)
    /\ UNCHANGED <<pc, text, chunk_size, chunk_overlap, file_path, chunks,
                   records, metadata, tax_file, tax_collection, ingest_result, pipeline_vars>>

\* invocation t leaves its loop and returns
Return(t) ==
    /\ pc = "callers"
    /\ calls[t].pc = "loop"
    /\ calls[t].n = Len(calls[t].items)
    /\ calls' = IF calls[t].method = "chunk_by_sentences"
                THEN ReturnSentences(calls, t)
                ELSE ReturnSections(calls, t, chunk_size, chunk_overlap)
    /\ UNCHANGED <<pc, text, chunk_size, chunk_overlap, file_path, chunks,
                   records, metadata, tax_file, tax_collection, ingest_result, pipeline_vars>>

\* lines 275-329
IngestTaxData ==
    /\ pc = "ingestion"
    /\ IF tax_file = None
       THEN /\ ingest_result' = [error |-> "Tax data file not found"]
            /\ UNCHANGED tax_collection
       ELSE LET entries == AllEntries(tax_file[1], chunk_size, chunk_overlap)
            IN \E uuids \in [1..Len(entries) -> Uuids] :
                   /\ tax_collection' =
                          AddBatches(tax_collection, WithIds(entries, uuids),
                                     BatchSize)
                   /\ ingest_result' = [tax_chunks |-> Len(entries)]
    /\ pc' = "ingested"
    /\ UNCHANGED <<text, chunk_size, chunk_overlap, file_path, chunks, records,
                   metadata, calls, tax_file, pipeline_vars>>

\* line 34: collect_all_data is called, on a new orchestrator or again on
\* one that has returned
CallCollectAllData ==
    /\ pc \in { "orchestrator", "collected" }
    /\ runs < MaxRuns
    /\ runs' = runs + 1
    /\ outcomes' = << >>
    /\ pc' = "collecting"
    /\ UNCHANGED <<text, chunk_size, chunk_overlap, file_path, chunks, records,
                   metadata, calls, tax_file, tax_collection, ingest_result,
                   results, doc, pdf_chunks>>

\* lines 42-83: the next phase calls its collector and stores its entry
RunPhase ==
    /\ pc = "collecting"
    /\ Len(outcomes) < NumPhases
    /\ \E outcome \in Outcomes(Len(outcomes) + 1) :
           /\ results' = SetItem(results, PhaseKeys[Len(outcomes) + 1],
                                 PhaseEntry(outcome))
           /\ outcomes' = Append(outcomes, outcome)
    /\ UNCHANGED <<pc, text, chunk_size, chunk_overlap, file_path, chunks,
                   records, metadata, calls, tax_file, tax_collection,
                   ingest_result, runs, doc, pdf_chunks>>

\* lines 96-109: the summary is stored and self.results returned
Summarise ==
    /\ pc = "collecting"
    /\ Len(outcomes) = NumPhases
    /\ \E total_time \in ElapsedTimes, timestamp \in Timestamps :
           results' = SetItem(results, "summary",
                              Summary(results, total_time, timestamp))
    /\ pc' = "collected"
    /\ UNCHANGED <<text, chunk_size, chunk_overlap, file_path, chunks, records,
                   metadata, calls, tax_file, tax_collection, ingest_result,
                   outcomes, runs, doc, pdf_chunks>>

\* lines 162-214
CallExtractTextFromPdf ==
    /\ pc = "extractor"
    /\ \E today \in Dates :
           pdf_chunks' = ExtractTextFromPdf(doc, file_path, today)
    /\ pc' = "extracted"
    /\ UNCHANGED <<text, chunk_size, chunk_overlap, file_path, chunks, records,
                   metadata, calls, tax_file, tax_collection, ingest_result,
                   results, outcomes, runs, doc>>

Next ==
    \/ CallChunkBySentences
    \/ CallChunkBySections
    \/ CallExtractMetadata
    \/ CallCollectAllData
    \/ RunPhase
    \/ Summarise
    \/ CallExtractTextFromPdf
    \/ \E t \in DOMAIN calls : Enter(t) \/ Iterate(t) \/ Return(t)
    \/ IngestTaxData

Spec == Init /\ [][Next]_vars

\* chunk_by_sentences alone, on the texts for the sentence packer
InitSentences == Init /\ pc = "chunker" /\ text \in SentenceTexts

NextSentences == CallChunkBySentences

SpecSentences == InitSentences /\ [][NextSentences]_vars

\* chunk_by_sections alone, on the texts for the section segmenter
InitSections == Init /\ pc = "chunker" /\ text \in SectionTexts

NextSections == CallChunkBySections

SpecSections == InitSections /\ [][NextSections]_vars

\* both methods on the texts without content: '', whitespace, blank lines
InitBlank == Init /\ pc = "chunker" /\ Strip(text) = << >>

NextBlank == CallChunkBySentences \/ CallChunkBySections

SpecBlank == InitBlank /\ [][NextBlank]_vars

\* either method of one TextChunker on every text
InitChunker == Init /\ pc = "chunker"

NextChunker == CallChunkBySentences \/ CallChunkBySections

SpecChunker == InitChunker /\ [][NextChunker]_vars

\* one invocation of chunk_by_sentences, run step by step to its end, on a
\* TextChunker constructed with a negative, a zero or a positive chunk_size
\* and chunk_overlap: chunk_size <= 0, negative chunk_overlap and
\* chunk_overlap >= chunk_size included
AnyChunkSizes == {-1, 0, MaxChunkSize}

AnyChunkOverlaps == {-1, 0, MaxOverlap}

StepAlphabet == {"a", ".", " "}

StepTexts == UNION { [1..n -> StepAlphabet] : n \in 0..MaxStepLen }

InitTermination ==
    /\ pc = "callers"
    /\ text = << >>
    /\ chunk_size \in AnyChunkSizes
    /\ chunk_overlap \in AnyChunkOverlaps
    /\ file_path = << >>
    /\ chunks = << >>
    /\ records = << >>
    /\ metadata = NoMetadata
    /\ calls \in { << NewCall("chunk_by_sentences", t) >> : t \in StepTexts }
    /\ tax_file = None
    /\ tax_collection = << >>
    /\ ingest_result = None
    /\ results = EmptyDict
    /\ outcomes = << >>
    /\ runs = 0
    /\ doc = NoDocument
    /\ pdf_chunks = << >>

NextTermination == \E t \in DOMAIN calls : Enter(t) \/ Iterate(t) \/ Return(t)

\* the thread that made the call keeps running it
SpecTermination ==
    InitTermination /\ [][NextTermination]_vars /\ WF_vars(NextTermination)

\* collect_all_data alone, called up to MaxRuns times on one orchestrator
InitOrchestrator == Init /\ pc = "orchestrator"

NextOrchestrator == CallCollectAllData \/ RunPhase \/ Summarise

SpecOrchestrator == InitOrchestrator /\ [][NextOrchestrator]_vars

\* extract_text_from_pdf alone
InitExtractor == Init /\ pc = "extractor"

NextExtractor == CallExtractTextFromPdf

SpecExtractor == InitExtractor /\ [][NextExtractor]_vars

\* extract_metadata alone
InitMetadata == Init /\ pc = "indexer"

NextMetadata == CallExtractMetadata

SpecMetadata == InitMetadata /\ [][NextMetadata]_vars

\* NumCalls invocations on one TextChunker, interleaved step by step
InitConcurrent == Init /\ pc = "callers"

NextConcurrent == \E t \in DOMAIN calls : Enter(t) \/ Iterate(t) \/ Return(t)

SpecConcurrent == InitConcurrent /\ [][NextConcurrent]_vars

\* ingest_tax_data alone
InitIngestion == Init /\ pc = "ingestion"

NextIngestion == IngestTaxData

SpecIngestion == InitIngestion /\ [][NextIngestion]_vars

(***************************************************************************)
(* Properties of chunk_by_sentences (checked under SpecSentences).         *)
(***************************************************************************)
SentencesDone == pc = "sentences_done"

\* the sentences of the input longer than chunk_size
Oversized(sentence) == Len(sentence) > chunk_size

\* chunk i holds a sentence that is by itself longer than chunk_size
HoldsOversized(i) ==
    \E k \in 1..Len(Sentences(text)) :
        /\ Oversized(Sentences(text)[k])
        /\ Contains(chunks[i], Sentences(text)[k])

\* C1: every chunk returned by chunk_by_sentences has length <= chunk_size,
\* except a chunk that holds a sentence which is by itself longer than
\* chunk_size.
C1_ChunkLengthBound ==
    SentencesDone =>
        \A i \in 1..Len(chunks) :
            Len(chunks[i]) <= chunk_size \/ HoldsOversized(i)

\* C2 as stated: with chunk_overlap O > 0, the first O characters of chunk
\* i+1 are the last O characters of chunk i.  Stated only for pairs where
\* chunk i has at least O characters and neither chunk holds an oversized
\* sentence.
C2_RawSuffixOverlap ==
    (SentencesDone /\ chunk_overlap > 0) =>
        \A i \in 1..(Len(chunks) - 1) :
            (/\ Len(chunks[i]) >= chunk_overlap
             /\ ~HoldsOversized(i)
             /\ ~HoldsOversized(i + 1))
            => Take(chunks[i + 1], chunk_overlap)
                   = Suffix(chunks[i], chunk_overlap)

\* what chunk_by_sentences puts in front of the first sentence of a chunk
\* that follows the chunk `previous`
OverlapPrefix(previous) ==
    IF chunk_overlap > 0
    THEN LStrip(Suffix(previous, chunk_overlap)) \o << " " >>
    ELSE << >>

\* C2 amended: with chunk_overlap O > 0, chunk i+1 begins with the last O
\* characters of chunk i (all of chunk i when it is shorter) with their
\* leading whitespace removed, followed by one space.
C2_StrippedSuffixOverlap ==
    (SentencesDone /\ chunk_overlap > 0) =>
        \A i \in 1..(Len(chunks) - 1) :
            /\ StartsWith(chunks[i + 1], OverlapPrefix(chunks[i]))
            /\ Len(chunks[i + 1]) > Len(OverlapPrefix(chunks[i]))

\* two chunks were returned and the overlap taken from the first starts
\* with whitespace, which the strip of the second chunk removes
C2_Witness ==
    /\ SentencesDone
    /\ chunk_overlap > 0
    /\ Len(chunks) >= 2
    /\ Len(chunks[1]) >= chunk_overlap
    /\ Suffix(chunks[1], chunk_overlap)[1] \in Whitespace

\* the i-th of the chunks cs without its overlap prefix
RemainderOf(cs, i) ==
    IF i = 1 THEN cs[1]
    ELSE SubSeq(cs[i], Len(OverlapPrefix(cs[i - 1])) + 1, Len(cs[i]))

Remainder(i) == RemainderOf(chunks, i)

\* ' '.join(strs)
RECURSIVE JoinSpace(_)
JoinSpace(strs) ==
    IF Len(strs) = 0 THEN << >>
    ELSE IF Len(strs) = 1 THEN strs[1]
    ELSE strs[1] \o << " " >> \o JoinSpace(Tail(strs))

\* rems[j] is the space-joined run of sentences that follows the runs of
\* rems[1..j-1], and the runs use up all of sents
RECURSIVE Partitions(_, _)
Partitions(rems, sents) ==
    IF Len(rems) = 0 THEN Len(sents) = 0
    ELSE \E k \in 1..Len(sents) :
             /\ rems[1] = JoinSpace(SubSeq(sents, 1, k))
             /\ Partitions(Tail(rems), SubSeq(sents, k + 1, Len(sents)))

\* C3: for a non-empty text, the chunks without their overlap prefixes are,
\* in output order, consecutive runs of the splitter's sentences that use
\* every sentence exactly once and in order.
C3_ChunksReconstructSentences ==
    (SentencesDone /\ text # << >>) =>
        /\ \A i \in 2..Len(chunks) :
               StartsWith(chunks[i], OverlapPrefix(chunks[i - 1]))
        /\ Partitions([i \in 1..Len(chunks) |-> Remainder(i)], Sentences(text))

\* an overlap was injected and some chunk packs two sentences
C3_Witness ==
    /\ SentencesDone
    /\ chunk_overlap > 0
    /\ Len(chunks) >= 2
    /\ Len(Sentences(text)) > Len(chunks)

\* the index, in the returned list, of the chunk that holds sentence k
HoldingChunk(k) ==
    Len(PackState(Sentences(text), k, chunk_size, chunk_overlap).chunks) + 1

\* C5 as stated: the chunk holding a sentence longer than chunk_size is
\* exactly that sentence.
C5_OversizedAlone ==
    SentencesDone =>
        \A k \in 1..Len(Sentences(text)) :
            Oversized(Sentences(text)[k])
            => chunks[HoldingChunk(k)] = Sentences(text)[k]

\* C5 amended: the chunk holding a sentence longer than chunk_size holds
\* that sentence whole and no other sentence: it is exactly the sentence
\* when chunk_overlap <= 0 or it is the first chunk, and otherwise the
\* overlap prefix taken from the previous chunk followed by the sentence.
C5_OversizedOwnChunk ==
    SentencesDone =>
        \A k \in 1..Len(Sentences(text)) :
            Oversized(Sentences(text)[k])
            => /\ HoldingChunk(k) <= Len(chunks)
               /\ chunks[HoldingChunk(k)] =
                      IF HoldingChunk(k) = 1 THEN Sentences(text)[k]
                      ELSE OverlapPrefix(chunks[HoldingChunk(k) - 1])
                               \o Sentences(text)[k]

\* an oversized sentence follows a closed chunk and carries its overlap
C5_Witness ==
    /\ SentencesDone
    /\ chunk_overlap > 0
    /\ \E k \in 2..Len(Sentences(text)) :
           /\ Oversized(Sentences(text)[k])
           /\ ~Oversized(Sentences(text)[k - 1])
           /\ HoldingChunk(k) > 1

\* the call chunk_by_sentences("A. B. C.") with chunk_size 3, overlap 0
ExampleCall ==
    /\ SentencesDone
    /\ text = ExampleText
    /\ chunk_size = 3
    /\ chunk_overlap = 0

\* C6 as stated: in the example the first chunk is "A." and every chunk
\* has at most 3 characters.
C6_ExampleFirstChunkWithDot ==
    ExampleCall =>
        /\ Len(chunks) >= 1
        /\ chunks[1] = << "A", "." >>
        /\ \A i \in 1..Len(chunks) : Len(chunks[i]) <= 3

\* C6 amended: in the example the first chunk is "A B" (the delimiters are
\* discarded and the first two sentences fit together) and every chunk has
\* at most 3 characters.
C6_ExampleFirstChunk ==
    ExampleCall =>
        /\ Len(chunks) >= 1
        /\ chunks[1] = << "A", " ", "B" >>
        /\ \A i \in 1..Len(chunks) : Len(chunks[i]) <= 3

C6_Witness == ExampleCall /\ Len(chunks) = 2

(***************************************************************************)
(* Empty input (checked under SpecBlank).                                  *)
(***************************************************************************)
\* C4: for the empty string and for text of whitespace or blank lines only,
\* chunk_by_sentences and chunk_by_sections both return the empty list.
C4_EmptyInputEmptyOutput ==
    /\ (SentencesDone /\ Strip(text) = << >>) => chunks = << >>
    /\ (pc = "sections_done" /\ Strip(text) = << >>) => records = << >>

\* chunk_by_sentences has returned for a text of whitespace only
C4_Witness ==
    /\ SentencesDone
    /\ text # << >>
    /\ Strip(text) = << >>
    /\ chunks = << >>

(***************************************************************************)
(* Properties of chunk_by_sections (checked under SpecSections).           *)
(***************************************************************************)
SectionsDone == pc = "sections_done"

\* the stripped, non-blank lines of the text, in order
NonBlankLines ==
    LET lines == SplitLines(text)
        NonBlank(l) == Strip(l) # << >>
        kept == SelectSeq(lines, NonBlank)
    IN [i \in 1..Len(kept) |-> Strip(kept[i])]

\* a heading line as the specification defines it: the stripped line starts,
\* case-insensitively, with a default marker, or with digits and a dot
HeadingLine(line) ==
    \/ \E m \in 1..Len(DefaultSectionMarkers) :
           /\ Len(line) >= Len(DefaultSectionMarkers[m])
           /\ \A c \in 1..Len(DefaultSectionMarkers[m]) :
                  LowerChar(line[c]) = LowerChar(DefaultSectionMarkers[m][c])
    \/ \E n \in 1..(Len(line) - 1) :
           /\ \A c \in 1..n : line[c] \in Digits
           /\ line[n + 1] = "."

HeadingFree == \A k \in 1..Len(NonBlankLines) : ~HeadingLine(NonBlankLines[k])

\* the characters of s that are neither whitespace nor sentence punctuation
Content(s) ==
    LET Kept(c) == c \notin Whitespace /\ c \notin Punct
    IN SelectSeq(s, Kept)

RecordTexts == [j \in 1..Len(records) |-> records[j].text]

\* the content of the first n records, overlap prefixes left out
RECURSIVE RecordsContent(_)
RecordsContent(n) ==
    IF n = 0 THEN << >>
    ELSE RecordsContent(n - 1) \o Content(RemainderOf(RecordTexts, n))

\* C7: for text with a non-blank line and no heading line, chunk_by_sections
\* produces exactly one section: at least one record, every record titled
\* "Introduction" and numbered 0..n-1 of n, and the records, overlap
\* prefixes left out, hold all of the text's content in order.
C7_NoHeadingOneIntroduction ==
    (SectionsDone /\ Len(NonBlankLines) >= 1 /\ HeadingFree) =>
        /\ Len(records) >= 1
        /\ \A j \in 1..Len(records) :
               /\ records[j].section_title = Introduction
               /\ records[j].chunk_index = j - 1
               /\ records[j].total_chunks = Len(records)
        /\ \A j \in 2..Len(records) :
               StartsWith(records[j].text, OverlapPrefix(records[j - 1].text))
        /\ RecordsContent(Len(records)) = Content(text)

\* a heading-free text of several lines was cut into several records, with
\* overlap
C7_Witness ==
    /\ SectionsDone
    /\ HeadingFree
    /\ Len(NonBlankLines) >= 2
    /\ Len(records) >= 2
    /\ chunk_overlap > 0

\* the titles of the sections in document order: "Introduction", then the
\* first 100 characters of every heading line other than the first
\* non-blank line
ExpectedTitles ==
    IF Len(NonBlankLines) = 0 THEN << >>
    ELSE LET later == SelectSeq(Tail(NonBlankLines), HeadingLine)
         IN << Introduction >> \o [k \in 1..Len(later) |-> Take(later[k], 100)]

\* the titles of the records that start a group
GroupTitles ==
    LET First(r) == r.chunk_index = 0
        firsts == SelectSeq(records, First)
    IN [k \in 1..Len(firsts) |-> firsts[k].section_title]

\* C8: the records come in groups, one per section in document order; in a
\* group chunk_index runs 0, 1, ..., n-1 and every record carries
\* total_chunks = n >= 1 and the section's title.
C8_RecordsGroupedBySection ==
    SectionsDone =>
        /\ \A j \in 1..Len(records) :
               /\ 0 <= records[j].chunk_index
               /\ records[j].chunk_index < records[j].total_chunks
               /\ IF records[j].chunk_index = 0
                  THEN /\ j + records[j].total_chunks - 1 <= Len(records)
                       /\ j > 1 =>
                              records[j - 1].chunk_index
                                  = records[j - 1].total_chunks - 1
                  ELSE /\ j > 1
                       /\ records[j - 1].chunk_index = records[j].chunk_index - 1
                       /\ records[j - 1].total_chunks = records[j].total_chunks
                       /\ records[j - 1].section_title = records[j].section_title
        /\ GroupTitles = ExpectedTitles

\* several sections were produced, one of them with several chunks
C8_Witness ==
    /\ SectionsDone
    /\ Len(GroupTitles) >= 2
    /\ \E j \in 1..Len(records) : records[j].total_chunks >= 2

\* the loop state of chunk_by_sections before any line is read
InitialLoopState ==
    SectionState(<< >>, 0, DefaultSectionMarkers, chunk_size, chunk_overlap)

\* the loop of chunk_by_sections, run over lines[n..] from the loop state
\* `before`, treats every line as C9 says
RECURSIVE LinesHandled(_, _, _)
LinesHandled(lines, n, before) ==
    \/ n > Len(lines)
    \/ LET line == Strip(lines[n])
           after == SectionLine(before, lines[n], DefaultSectionMarkers,
                                chunk_size, chunk_overlap)
       IN /\ IF line # << >> /\ HeadingLine(line)
                   /\ before.current_section # << >>
             THEN /\ after.current_title = Take(line, 100)
                  /\ after.current_section = line
                  /\ Len(after.chunks) > Len(before.chunks)
                  /\ SubSeq(after.chunks, 1, Len(before.chunks)) = before.chunks
                  /\ \A j \in (Len(before.chunks) + 1)..Len(after.chunks) :
                         after.chunks[j].section_title = before.current_title
                  /\ SubSeq(records, 1, Len(after.chunks)) = after.chunks
             ELSE /\ after.current_title = before.current_title
                  /\ StartsWith(after.current_section, before.current_section)
                  /\ after.chunks = before.chunks
          /\ LinesHandled(lines, n + 1, after)

\* C9: a heading line met while the section buffer is non-empty closes the
\* current section (its records are appended under the old title) and opens
\* a section whose title is the first 100 characters of the stripped
\* heading line and whose body starts with that line; any other line leaves
\* the title alone and extends the body.  Hence every record's title is
\* "Introduction" or the first 100 characters of a heading line.
C9_HeadingOpensSection ==
    SectionsDone =>
        /\ LinesHandled(SplitLines(text), 1, InitialLoopState)
        /\ \A j \in 1..Len(records) :
               \/ records[j].section_title = Introduction
               \/ \E k \in 1..Len(NonBlankLines) :
                      /\ HeadingLine(NonBlankLines[k])
                      /\ Len(records[j].section_title) <= 100
                      /\ records[j].section_title = Take(NonBlankLines[k], 100)

\* a heading line of more than 100 characters has opened a section
C9_Witness ==
    /\ SectionsDone
    /\ \E j \in 2..Len(records) :
           /\ records[j].chunk_index = 0
           /\ Len(records[j].section_title) = 100
           /\ \E k \in 1..Len(NonBlankLines) :
                  /\ Len(NonBlankLines[k]) > 100
                  /\ records[j].section_title = Take(NonBlankLines[k], 100)

(***************************************************************************)
(* Properties of extract_metadata (checked under SpecMetadata).            *)
(***************************************************************************)
MetadataDone == pc = "metadata_done"

\* the parent directory is named RBI, SEBI or AMFI in some letter case
KnownSourceFolder ==
    Lower(PathParentName(file_path))
        \in { << "r", "b", "i" >>, << "s", "e", "b", "i" >>,
              << "a", "m", "f", "i" >> }

\* t is s with every underscore and every hyphen replaced by a space
SeparatorsSpaced(s, t) ==
    /\ Len(t) = Len(s)
    /\ \A i \in 1..Len(s) :
           t[i] = IF s[i] \in {"_", "-"} THEN " " ELSE s[i]

\* C10: for a path whose parent directory is not named RBI, SEBI or AMFI in
\* any letter case, extract_metadata returns category "Other", the topic is
\* the file name's stem with underscores and hyphens replaced by spaces,
\* audience is "General", and ppt_id and date are None.
C10_UnknownFolderDefaults ==
    (MetadataDone /\ ~KnownSourceFolder) =>
        /\ metadata.category = Str_Other
        /\ SeparatorsSpaced(PathStem(file_path), metadata.topic)
        /\ metadata.audience = Str_General
        /\ metadata.ppt_id = None
        /\ metadata.date = None

\* a file named like a SEBI presentation, with separators in its stem, in
\* a directory that is none of the three sources
C10_Witness ==
    /\ MetadataDone
    /\ ~KnownSourceFolder
    /\ PathParentName(file_path) # << >>
    /\ StartsWith(PathName(file_path), Kw_PPT_dash)
    /\ metadata.topic # PathStem(file_path)
    /\ metadata.category = Str_Other

\* the name of the file handed to extract_metadata
FileName == PathName(file_path)

\* extract_metadata has returned for a file whose parent directory is named
\* src in some letter case
UnderSource(src) ==
    MetadataDone /\ Lower(PathParentName(file_path)) = Lower(src)

\* the file name starts with "PPT-" in some letter case
NamedPpt ==
    /\ Len(FileName) >= 4
    /\ Lower(SubSeq(FileName, 1, 4)) = << "p", "p", "t", "-" >>

\* the digits that follow the four characters "PPT-" without a gap
DigitRunAfterPrefix == SubSeq(FileName, 5, RunEnd(FileName, 5, Digits))

\* t is a month abbreviation (any letter case), further letters, at most
\* one separator out of space, underscore and hyphen, and 2 to 4 digits
DateToken(t) ==
    /\ Len(t) >= 5
    /\ Lower(SubSeq(t, 1, 3)) \in MonthAbbreviations
    /\ \E y \in 2..4 :
           /\ Len(t) - y >= 3
           /\ \A i \in (Len(t) - y + 1)..Len(t) : t[i] \in Digits
           /\ \/ \A i \in 4..(Len(t) - y) : t[i] \in Letters
              \/ /\ Len(t) - y >= 4
                 /\ t[Len(t) - y] \in {" ", "_", "-"}
                 /\ \A i \in 4..(Len(t) - y - 1) : t[i] \in Letters

\* some part of s is a date token
HasDateToken(s) ==
    \E i \in 1..Len(s) : \E j \in (i + 4)..Len(s) : DateToken(SubSeq(s, i, j))

\* C11: for a file under source SEBI whose name starts with "PPT-" in any
\* letter case, the category is "PPT", ppt_id is the integer value of the
\* digit run right after "PPT-" (None without such a run), and date is a
\* month-and-year token of the file name when the name holds one (None
\* otherwise); SEBI/PPT-42-Jan2024.pdf gives source "SEBI", category "PPT",
\* ppt_id 42 and date "Jan2024".
C11_SebiPresentation ==
    (UnderSource(Str_SEBI) /\ NamedPpt) =>
        /\ metadata.category = Str_PPT
        /\ metadata.ppt_id = IF DigitRunAfterPrefix = << >> THEN None
                             ELSE Some(DigitsValue(DigitRunAfterPrefix))
        /\ IF HasDateToken(FileName)
           THEN /\ metadata.date # None
                /\ DateToken(metadata.date[1])
                /\ Contains(FileName, metadata.date[1])
           ELSE metadata.date = None
        /\ FileName = ExampleName =>
               /\ metadata.source = << "S", "E", "B", "I" >>
               /\ metadata.ppt_id = << 42 >>
               /\ metadata.date = << << "J", "a", "n", "2", "0", "2", "4" >> >>

\* SEBI/PPT-42-Jan2024.pdf has been indexed
C11_Witness ==
    /\ UnderSource(Str_SEBI)
    /\ PathParentName(file_path) = Str_SEBI
    /\ FileName = ExampleName
    /\ metadata.category = Str_PPT
    /\ metadata.ppt_id = << 42 >>

\* t is s with every letter in upper case
UpperCased(s, t) ==
    /\ Len(t) = Len(s)
    /\ \A i \in 1..Len(s) : t[i] = UpperChar(s[i])

\* the path of the same file in the directory named in upper case
InUpperCaseFolder(path) == [path EXCEPT ![Len(path) - 1] = Upper(@)]

\* C12: source is the parent directory's name in upper case, and the rules
\* of RBI, SEBI and AMFI apply whatever the letter case of the directory
\* name: the record is the one of the same file under the upper-case
\* directory, so under "sebi" a PPT- file is a "PPT", under "rbi" a
\* financial-literacy file is "Literacy", under "amfi" a Strategy file is a
\* "Report".
C12_SourceIsUpperCasedFolder ==
    MetadataDone =>
        /\ UpperCased(PathParentName(file_path), metadata.source)
        /\ KnownSourceFolder =>
               metadata = ExtractMetadata(InUpperCaseFolder(file_path))
        /\ (UnderSource(Str_SEBI) /\ NamedPpt) => metadata.category = Str_PPT
        /\ (UnderSource(Str_RBI)
              /\ Contains(Lower(FileName), Lower(Kw_FINANCIAL_LITERACY))) =>
               metadata.category = Str_Literacy
        /\ (UnderSource(Str_AMFI) /\ Contains(FileName, Kw_Strategy)) =>
               metadata.category = Str_Report

\* a PPT- file in a directory named "Sebi"
C12_Witness ==
    /\ UnderSource(Str_SEBI)
    /\ PathParentName(file_path) # Str_SEBI
    /\ NamedPpt
    /\ metadata.source = Str_SEBI
    /\ metadata.category = Str_PPT

\* C13: when a SEBI file is classified as "Guide", the audience follows the
\* first keyword present in the order Beginners ("Beginners"), Advanced
\* ("Advance"), Intermediate ("intermediate" in any letter case), whatever
\* else the name holds, and stays "General" when none of them is present.
C13_GuideAudiencePriority ==
    (UnderSource(Str_SEBI) /\ metadata.category = Str_Guide) =>
        metadata.audience =
            IF Contains(FileName, << "B", "e", "g", "i", "n", "n", "e", "r", "s" >>)
            THEN << "B", "e", "g", "i", "n", "n", "e", "r", "s" >>
            ELSE IF Contains(FileName, << "A", "d", "v", "a", "n", "c", "e" >>)
            THEN << "A", "d", "v", "a", "n", "c", "e", "d" >>
            ELSE IF Contains(Lower(FileName),
                             << "i", "n", "t", "e", "r", "m", "e", "d", "i", "a", "t", "e" >>)
            THEN << "I", "n", "t", "e", "r", "m", "e", "d", "i", "a", "t", "e" >>
            ELSE << "G", "e", "n", "e", "r", "a", "l" >>

\* a guide whose name holds "Advance" before "Beginners"
C13_Witness ==
    /\ UnderSource(Str_SEBI)
    /\ StartsWith(FileName, Kw_Mutual_Fund \o Kw_Advance)
    /\ Contains(FileName, Kw_Beginners)
    /\ metadata.category = Str_Guide
    /\ metadata.audience = Str_Beginners

\* C14: for a SEBI file whose name does not start with "PPT-", a name that
\* holds "beginners" in any letter case gets category "Guide" and audience
\* "Beginners".
C14_BeginnersKeywordAnyCase ==
    (UnderSource(Str_SEBI) /\ ~NamedPpt
        /\ Contains(Lower(FileName), Kw_beginners)) =>
        /\ metadata.category = Str_Guide
        /\ metadata.audience = Str_Beginners

\* the file name holds "FINANCIAL LITERACY" in some letter case
NamedLiteracy ==
    Contains(Lower(FileName), Lower(Kw_FINANCIAL_LITERACY))

NamedGuide ==
    \/ Contains(FileName, Kw_Mutual_Fund)
    \/ Contains(Lower(FileName), Kw_beginners)

\* C16: for a file under source SEBI the category is the one of the first
\* rule that matches in the order PPT, Guide, Booklet ("Booklet"), Brochure
\* ("brochure" in any letter case), "Other" when none matches, and no
\* other rule leaves a trace: ppt_id and date are set only for a PPT, the
\* audience only for a Guide.
C16_SebiFirstMatchingRule ==
    UnderSource(Str_SEBI) =>
        /\ metadata.category =
               IF NamedPpt THEN Str_PPT
               ELSE IF NamedGuide THEN Str_Guide
               ELSE IF Contains(FileName, Kw_Booklet) THEN Str_Booklet
               ELSE IF Contains(Lower(FileName), Kw_brochure) THEN Str_Brochure
               ELSE Str_Other
        /\ metadata.category # Str_PPT =>
               metadata.ppt_id = None /\ metadata.date = None
        /\ metadata.category # Str_Guide => metadata.audience = Str_General

\* a SEBI file named both "Mutual-Fund" and "Booklet" is a Guide
C16_Witness ==
    /\ UnderSource(Str_SEBI)
    /\ Contains(FileName, Kw_Mutual_Fund)
    /\ Contains(FileName, Kw_Booklet)
    /\ metadata.category = Str_Guide

\* C17: for a file under source AMFI, a name holding "Strategy" gets
\* category "Report", any other name holding "NAVAll" gets "Data", every
\* other name "Other"; in all three cases topic, audience, ppt_id and date
\* keep their defaults.
C17_AmfiRules ==
    UnderSource(Str_AMFI) =>
        /\ metadata.category =
               IF Contains(FileName, Kw_Strategy) THEN Str_Report
               ELSE IF Contains(FileName, Kw_NAVAll) THEN Str_Data
               ELSE Str_Other
        /\ SeparatorsSpaced(PathStem(file_path), metadata.topic)
        /\ metadata.audience = Str_General
        /\ metadata.ppt_id = None
        /\ metadata.date = None

\* an AMFI file named both "Strategy" and "NAVAll" is a Report
C17_Witness ==
    /\ UnderSource(Str_AMFI)
    /\ Contains(FileName, Kw_Strategy)
    /\ Contains(FileName, Kw_NAVAll)
    /\ metadata.category = Str_Report

\* the file name matches none of the patterns of its source
MatchesNoPattern ==
    /\ UnderSource(Str_RBI) =>
           ~NamedLiteracy /\ ~Contains(FileName, Kw_Financing_needs)
    /\ UnderSource(Str_SEBI) =>
           /\ ~NamedPpt /\ ~NamedGuide
           /\ ~Contains(FileName, Kw_Booklet)
           /\ ~Contains(Lower(FileName), Kw_brochure)
    /\ UnderSource(Str_AMFI) =>
           ~Contains(FileName, Kw_Strategy) /\ ~Contains(FileName, Kw_NAVAll)

\* C18: for a file under RBI, SEBI or AMFI whose name matches none of that
\* source's patterns, extract_metadata returns the default record: category
\* "Other", topic = the stem with underscores and hyphens replaced by
\* spaces, audience "General", ppt_id, date and page_number None; only
\* source (the upper-cased directory name) and filename reflect the path.
C18_UnmatchedKeepsDefaults ==
    (MetadataDone /\ KnownSourceFolder /\ MatchesNoPattern) =>
        /\ metadata.category = Str_Other
        /\ SeparatorsSpaced(PathStem(file_path), metadata.topic)
        /\ metadata.audience = Str_General
        /\ metadata.ppt_id = None
        /\ metadata.date = None
        /\ metadata.page_number = None
        /\ UpperCased(PathParentName(file_path), metadata.source)
        /\ metadata.filename = FileName

\* a SEBI file with separators in its stem that matches no SEBI pattern
C18_Witness ==
    /\ UnderSource(Str_SEBI)
    /\ MatchesNoPattern
    /\ metadata.topic # PathStem(file_path)
    /\ metadata.category = Str_Other

\* what invocation t returns when it runs alone on the TextChunker
ResultAlone(t) ==
    IF calls[t].method = "chunk_by_sentences"
    THEN ChunkBySentences(calls[t].text, chunk_size, chunk_overlap)
    ELSE ChunkBySections(calls[t].text, DefaultSectionMarkers,
                         chunk_size, chunk_overlap)

\* every invocation that has returned returned what it returns alone
ResultsAsAlone ==
    \A t \in DOMAIN calls :
        calls[t].pc = "returned" => calls[t].result = ResultAlone(t)

\* a step of an invocation leaves the TextChunker and the frames of the
\* other invocations as they are
FramesApart ==
    /\ chunk_size' = chunk_size
    /\ chunk_overlap' = chunk_overlap
    /\ \A t, u \in DOMAIN calls :
           (calls'[t] # calls[t] /\ u # t) => calls'[u] = calls[u]

\* C19: chunk_by_sentences and chunk_by_sections never change chunk_size or
\* chunk_overlap nor the variables of another invocation, and under every
\* interleaving of the steps of concurrent invocations on distinct texts
\* each invocation returns what it returns when it runs alone.
C19_ConcurrentCallsIndependent ==
    []ResultsAsAlone /\ [][FramesApart]_vars

\* an invocation has returned two or more chunks while another one, which
\* has handled a part of its text, is still inside its loop
C19_Witness ==
    \E t, u \in DOMAIN calls :
        /\ calls[t].pc = "returned"
        /\ Len(calls[t].result) >= 2
        /\ calls[u].pc = "loop"
        /\ calls[u].n >= 1
        /\ calls[u].n < Len(calls[u].items)
        /\ calls[u].chunks # << >>

\* ingest_tax_data has returned after reading the file
Ingested == pc = "ingested" /\ tax_file # None

\* the chunks of an item: those of its content when it is longer than 100
\* characters
DocumentChunks(item) ==
    LET content == IF "content" \in DOMAIN item THEN item.content ELSE << >>
    IN IF Len(content) > 100
       THEN ChunkBySentences(content, chunk_size, chunk_overlap)
       ELSE << >>

\* number of chunks of the items before item k
RECURSIVE ChunksBefore(_, _)
ChunksBefore(tax_data, k) ==
    IF k = 1 THEN 0
    ELSE ChunksBefore(tax_data, k - 1) + Len(DocumentChunks(tax_data[k - 1]))

\* the value of a document field: the item's, or the default
DocumentField(item, key, default) ==
    IF key \in DOMAIN item THEN item[key] ELSE default

\* the fields a chunk copies from its document
DocumentKeys == { "title", "source", "type", "year", "extracted_date" }

\* md holds the document's title, source, type, year and extracted_date
CarriesDocumentMetadata(md, item) ==
    /\ md.title = DocumentField(item, "title", Str_Unknown)
    /\ md.source = IF "source_url" \in DOMAIN item THEN item.source_url
                   ELSE DocumentField(item, "source_file", Str_Unknown)
    /\ md.type = DocumentField(item, "type", << "t", "a", "x" >>)
    /\ md.year = DocumentField(item, "year", Str_Unknown)
    /\ md.extracted_date = DocumentField(item, "extracted_date", Str_Unknown)

\* md holds, besides the document's fields and the chunk index, the number
\* of chunks of its document
RecordsTotalChunks(md, total) ==
    \E key \in DOMAIN md \ (DocumentKeys \cup { "chunk_index" }) :
        md[key] = total

\* C20: after ingest_tax_data every chunk of a document is stored, in order,
\* with the document's title, source, type, year and extracted_date, with
\* its index among the chunks of the document, and with the total number
\* of chunks of that document.
C20_ChunkCarriesDocumentMetadata ==
    Ingested =>
        \A k \in 1..Len(tax_file[1]) :
            LET item == tax_file[1][k]
                doc_chunks == DocumentChunks(item)
                first == ChunksBefore(tax_file[1], k)
            IN \A i \in 1..Len(doc_chunks) :
                   LET entry == tax_collection[first + i]
                   IN /\ entry.document = doc_chunks[i]
                      /\ CarriesDocumentMetadata(entry.metadata, item)
                      /\ entry.metadata.chunk_index = i - 1
                      /\ RecordsTotalChunks(entry.metadata, Len(doc_chunks))

\* one step of the packing as specified: the buffer is closed if and only
\* if it is non-empty and buffer, separating space and sentence together
\* are longer than size; st = [out, buffer]
SpecifiedStep(st, sentence, size, overlap) ==
    IF st.buffer # << >> /\ Len(st.buffer) + 1 + Len(sentence) > size
    THEN [out |-> Append(st.out, Strip(st.buffer)),
          buffer |-> IF overlap > 0
                     THEN SubSeq(st.buffer,
                                 IF overlap < Len(st.buffer)
                                 THEN Len(st.buffer) - overlap + 1 ELSE 1,
                                 Len(st.buffer)) \o << " " >> \o sentence
                     ELSE sentence]
    ELSE [out |-> st.out,
          buffer |-> IF st.buffer = << >> THEN sentence
                     ELSE st.buffer \o << " " >> \o sentence]

\* the specified packing of the first n sentences
RECURSIVE SpecifiedState(_, _, _, _)
SpecifiedState(sentences, n, size, overlap) ==
    IF n = 0 THEN [out |-> << >>, buffer |-> << >>]
    ELSE SpecifiedStep(SpecifiedState(sentences, n - 1, size, overlap),
                       sentences[n], size, overlap)

\* the specified packing with the final flush of a non-empty buffer
SpecifiedPacking(sentences, size, overlap) ==
    LET st == SpecifiedState(sentences, Len(sentences), size, overlap)
    IN IF st.buffer # << >> THEN Append(st.out, Strip(st.buffer)) ELSE st.out

\* C21: chunk_by_sentences returns the output of the specified greedy
\* packing: a sentence closes the current chunk if and only if the buffer
\* is non-empty and buffer length + 1 + sentence length exceeds chunk_size;
\* after a close the buffer is the last chunk_overlap characters of the
\* closed buffer, a space and the sentence (the sentence alone without
\* overlap); otherwise the sentence is appended after a space; a non-empty
\* buffer is flushed at the end.
C21_SpecifiedGreedyPacking ==
    SentencesDone =>
        chunks = SpecifiedPacking(Sentences(text), chunk_size, chunk_overlap)

\* character i of s belongs to a delimiter: it is in a run of '.', '!', '?'
\* that ends right before whitespace, or in the whitespace right after
\* such a run
DelimiterChar(s, i) ==
    \/ /\ s[i] \in Punct
       /\ RunEnd(s, i, Punct) < Len(s)
       /\ s[RunEnd(s, i, Punct) + 1] \in Whitespace
    \/ /\ s[i] \in Whitespace
       /\ RunStart(s, i, Whitespace) > 1
       /\ s[RunStart(s, i, Whitespace) - 1] \in Punct

\* the maximal stretches of s without delimiter characters, from i on,
\* `piece` being the stretch collected so far
RECURSIVE StretchesFrom(_, _, _)
StretchesFrom(s, i, piece) ==
    IF i > Len(s) THEN << piece >>
    ELSE IF DelimiterChar(s, i)
         THEN << piece >> \o StretchesFrom(s, i + 1, << >>)
         ELSE StretchesFrom(s, i + 1, Append(piece, s[i]))

\* the trimmed, non-empty stretches
CutSentences(s) ==
    LET stretches == StretchesFrom(s, 1, << >>)
        NonEmpty(p) == \E c \in 1..Len(p) : p[c] \notin Whitespace
        kept == SelectSeq(stretches, NonEmpty)
    IN [k \in 1..Len(kept) |-> Strip(kept[k])]

\* C22: the sentences chunk_by_sentences works on are the trimmed,
\* non-empty stretches of the text between the delimiters, a delimiter
\* being a maximal run of '.', '!', '?' followed by whitespace together
\* with that whitespace; punctuation not followed by whitespace stays in
\* its sentence, and "Rs. 5" gives the sentences "Rs" and "5".  With
\* chunk_size 0 and no overlap the returned chunks are these sentences.
C22_SentencesCutAtDelimiters ==
    SentencesDone =>
        /\ Sentences(text) = CutSentences(text)
        /\ (chunk_size = 0 /\ chunk_overlap = 0) =>
               chunks = CutSentences(text)
        /\ text = AbbreviationText =>
               Sentences(text) = << << "R", "s" >>, << "5" >> >>

\* "Rs. 5" has been cut into the chunks "Rs" and "5"
C22_Witness ==
    /\ SentencesDone
    /\ text = AbbreviationText
    /\ chunk_size = 0
    /\ chunks = << << "R", "s" >>, << "5" >> >>

\* number of sections produced: the records that start a group
SectionCount == Cardinality({ j \in 1..Len(records) : records[j].chunk_index = 0 })

\* the heading lines after the first non-blank line
LaterHeadings ==
    { k \in 2..Len(NonBlankLines) : HeadingLine(NonBlankLines[k]) }

\* C23: a stripped line is a heading if and only if it starts, in any
\* letter case, with a default section marker or with digits and a dot;
\* blank lines are skipped and other lines open no section: for text with
\* a non-blank line the number of sections produced is 1 plus the number
\* of heading lines other than the first non-blank line.
C23_SectionsCountHeadings ==
    (SectionsDone /\ Len(NonBlankLines) >= 1) =>
        SectionCount = 1 + Cardinality(LaterHeadings)

\* a text with a blank line, a plain line and a later heading, an indented
\* marker in lower case
C23_Witness ==
    /\ SectionsDone
    /\ Len(SplitLines(text)) > Len(NonBlankLines)
    /\ LaterHeadings # {}
    /\ \E k \in LaterHeadings : NonBlankLines[k] = << "p", "a", "r", "a" >>
    /\ ~HeadingLine(NonBlankLines[1])
    /\ SectionCount = 2

\* number of non-blank lines of the first section: those before the first
\* later heading
FirstSectionLines ==
    IF LaterHeadings = {} THEN Len(NonBlankLines)
    ELSE (CHOOSE k \in LaterHeadings : \A h \in LaterHeadings : k <= h) - 1

\* C24: when the first non-blank line is a heading line it opens no titled
\* section: the records of the first section are titled "Introduction"
\* and hold, overlap prefixes left out, the content of that line and of
\* the lines up to the next heading line, whose section follows under the
\* first 100 characters of that line.
C24_LeadingHeadingStaysIntroduction ==
    (SectionsDone /\ Len(NonBlankLines) >= 1 /\ HeadingLine(NonBlankLines[1])) =>
        /\ Len(records) >= 1
        /\ \A j \in 1..records[1].total_chunks :
               records[j].section_title = Introduction
        /\ RecordsContent(records[1].total_chunks)
               = Content(JoinLines(SubSeq(NonBlankLines, 1, FirstSectionLines)))
        /\ LaterHeadings # {} =>
               /\ Len(records) > records[1].total_chunks
               /\ records[records[1].total_chunks + 1].section_title
                      = Take(NonBlankLines[FirstSectionLines + 1], 100)

\* a text that starts with a heading line and holds a later heading
C24_Witness ==
    /\ SectionsDone
    /\ Len(NonBlankLines) >= 2
    /\ HeadingLine(NonBlankLines[1])
    /\ LaterHeadings # {}
    /\ FirstSectionLines = 1
    /\ records[1].section_title = Introduction
    /\ Contains(records[1].text, << "R", "u", "l", "e" >>)

\* the last component of the path handed to extract_metadata
LastComponent == IF Len(file_path) = 0 THEN << >> ELSE file_path[Len(file_path)]

\* C25: in every record extract_metadata returns, ppt_id and date are set
\* only for source "SEBI" with category "PPT", the topic is the stem with
\* underscores and hyphens replaced by spaces unless the RBI rule for
\* "Financing needs" set its fixed topic, page_number is None and filename
\* is the path's file name.
C25_FieldsSetOnlyByTheirRule ==
    MetadataDone =>
        /\ metadata.ppt_id # None =>
               /\ metadata.source = << "S", "E", "B", "I" >>
               /\ metadata.category = << "P", "P", "T" >>
        /\ metadata.date # None =>
               /\ metadata.source = << "S", "E", "B", "I" >>
               /\ metadata.category = << "P", "P", "T" >>
        /\ ~SeparatorsSpaced(PathStem(file_path), metadata.topic) =>
               /\ metadata.source = << "R", "B", "I" >>
               /\ metadata.category = << "G", "u", "i", "d", "e" >>
               /\ Contains(LastComponent, Kw_Financing_needs)
               /\ metadata.topic = Str_FinancingTopic
        /\ metadata.page_number = None
        /\ metadata.filename = LastComponent

\* a SEBI presentation with both a number and a date
C25_Witness ==
    /\ MetadataDone
    /\ metadata.ppt_id # None
    /\ metadata.date # None
    /\ metadata.source = Str_SEBI
    /\ metadata.filename = LastComponent
    /\ metadata.page_number = None
    /\ SeparatorsSpaced(PathStem(file_path), metadata.topic)

(***************************************************************************)
(* Properties of both chunking methods (checked under SpecChunker).        *)
(***************************************************************************)
\* a non-empty string without leading or trailing whitespace
Trimmed(s) ==
    /\ s # << >>
    /\ s[1] \notin Whitespace
    /\ s[Len(s)] \notin Whitespace

\* C26: every chunk returned by chunk_by_sentences and every 'text' of a
\* chunk_by_sections record is a non-empty string with no leading or
\* trailing whitespace, for all texts, chunk sizes and overlaps, also when
\* the overlap suffix taken from the previous chunk starts with a space.
C26_ChunksNonEmptyAndTrimmed ==
    /\ SentencesDone => \A i \in 1..Len(chunks) : Trimmed(chunks[i])
    /\ SectionsDone => \A j \in 1..Len(records) : Trimmed(records[j].text)

\* a buffer that was opened with an overlap suffix beginning with a space
\* and was returned as the last chunk
C26_Witness ==
    /\ SentencesDone
    /\ chunk_overlap > 0
    /\ Len(chunks) > 1
    /\ LET sentences == ReSplitSentences(text)
           st == PackState(sentences, Len(sentences), chunk_size, chunk_overlap)
       IN /\ st.current_chunk[1] = " "
          /\ chunks[Len(chunks)] = Strip(st.current_chunk)

(***************************************************************************)
(* Termination of chunk_by_sentences (checked under SpecTermination).      *)
(***************************************************************************)
\* the invocation has returned
Returned == \A t \in DOMAIN calls : calls[t].pc = "returned"

\* a returned invocation has no more chunks than its text has non-empty
\* sentences
CountBounded ==
    \A t \in DOMAIN calls :
        calls[t].pc = "returned" =>
            Len(calls[t].result) <= Len(Sentences(calls[t].text))

\* C27: chunk_by_sentences terminates for every text and every integer
\* chunk_size and chunk_overlap (chunk_overlap >= chunk_size, chunk_size <= 0
\* and negative chunk_overlap included), and it returns no more chunks than
\* the text has non-empty sentences.
C27_TerminatesWithBoundedCount == <>Returned /\ []CountBounded

\* a call with chunk_size <= 0 and a negative chunk_overlap has returned one
\* chunk per sentence
C27_Witness ==
    /\ Returned
    /\ chunk_size <= 0
    /\ chunk_overlap < 0
    /\ \E t \in DOMAIN calls :
           /\ Len(calls[t].result) > 1
           /\ Len(calls[t].result) = Len(Sentences(calls[t].text))

(***************************************************************************)
(* Properties of collect_all_data (checked under SpecOrchestrator).        *)
(***************************************************************************)
Collecting == pc = "collecting"

Collected == pc = "collected"

\* the collectors called so far in the current call, in call order
CollectorsCalled == [i \in 1..Len(outcomes) |-> outcomes[i].collector]

\* the entry of phase i is what its collector returned, or the error dict
\* of the exception it raised
EntryOfOutcome(i) ==
    IF outcomes[i].raised
    THEN results[PhaseKeys[i]] = [error |-> outcomes[i].message]
    ELSE results[PhaseKeys[i]] = outcomes[i].value

\* C28: collect_all_data runs the phases tax, investment, market, budgeting
\* in that order, an exception raised in a phase never keeps the call from
\* going on with the later phases, and on return results holds an entry for
\* each of the four phases (the collector's result, or {"error": ...} when
\* it raised) and the summary, whose phases_completed and
\* phases_with_errors add up to 4.
C28_AllPhasesRunAndCounted ==
    /\ (Collecting \/ Collected) =>
           CollectorsCalled = SubSeq(Collectors, 1, Len(outcomes))
    /\ Collecting => ENABLED (RunPhase \/ Summarise)
    /\ Collected =>
           /\ Len(outcomes) = NumPhases
           /\ DOMAIN results =
                  { PhaseKeys[i] : i \in 1..NumPhases } \cup { "summary" }
           /\ \A i \in 1..NumPhases : EntryOfOutcome(i)
           /\ results["summary"].phases_completed
                  + results["summary"].phases_with_errors = NumPhases

\* the second call on one orchestrator has returned; its first phase raised
\* and its later phases ran
C28_Witness ==
    /\ Collected
    /\ runs = 2
    /\ outcomes[1].raised
    /\ \A i \in 2..NumPhases : ~outcomes[i].raised
    /\ results["tax_data"] = [error |-> "timed out"]
    /\ results["summary"].phases_completed = 3
    /\ results["summary"].phases_with_errors = 1

(***************************************************************************)
(* Properties of extract_text_from_pdf (checked under SpecExtractor).      *)
(***************************************************************************)
Extracted == pc = "extracted"

\* fitz read the whole document without raising
ReadToEnd == doc.fails_at > Len(doc.pages)

\* the pages that hold non-whitespace text
TextPages == { i \in 1..Len(doc.pages) : Strip(doc.pages[i]) # << >> }

\* the chunks whose content contains the stripped text of page i
ChunksHolding(i) ==
    { j \in 1..Len(pdf_chunks) :
        Contains(pdf_chunks[j].content, Strip(doc.pages[i])) }

\* every page with text can be given a chunk that contains it, later pages
\* in the same or a later chunk
PagesKeptInOrder ==
    LET holding == [i \in TextPages |-> ChunksHolding(i)]
    IN \E f \in [TextPages -> 1..Len(pdf_chunks)] :
           /\ \A i \in TextPages : f[i] \in holding[i]
           /\ \A i, k \in TextPages : i < k => f[i] <= f[k]

\* chunk j is titled "<stem> - Chunk <j>"
TitlesNumbered ==
    \A j \in 1..Len(pdf_chunks) :
        pdf_chunks[j].title = ChunkTitle(PathStem(file_path), j)

\* C29: extract_text_from_pdf loses no page text: for every sequence of page
\* texts the non-whitespace text of every page is contained in the content
\* of some returned chunk, the pages appear in order, and the chunk titles
\* are numbered consecutively from 1.
C29_NoPageTextLost ==
    (Extracted /\ ReadToEnd) => (PagesKeptInOrder /\ TitlesNumbered)

====
